---- MODULE Spec2Model ----
(***************************************************************************)
(* Budget planner backend: the CSV row validator / field extractor         *)
(* (backend/app/csv_validator.py) and the fingerprint, matching, merge and *)
(* request handlers over the progress file and the mapping store           *)
(* (backend/app/main.py).                                                  *)
(*                                                                         *)
(* Strings are TLA+ strings, read character by character with SubSeq.      *)
(* An optional float is a record [ok, neg, cents]: ok = FALSE is None, neg *)
(* is the sign bit (so that -0.0 is kept apart from 0.0, as "%.2f" does)   *)
(* and cents the magnitude in hundredths.  An optional datetime is a       *)
(* record [ok, y, m, d]; the time of day is never read by the program.     *)
(* A dict is a sequence of <<key, value>> pairs with distinct keys, in     *)
(* insertion order.                                                        *)
(***************************************************************************)
EXTENDS Integers, Sequences, FiniteSets, TLC

VARIABLES
    progress,   \* PROGRESS_FILE: the list of RowMapping of the current session
    store,      \* MAPPINGS_FILE: dict file name -> list of RowMapping, in insertion order
    resp,       \* the last request and its response
    uploaded,   \* the client's side: the file of the last accepted upload
    hin,        \* function-level runs: the arguments of the function under test
    hout,       \* function-level runs: the function applied and what it returned
    calls       \* concurrent runs: the map_row calls of the worker threads, each with
                \* its position in the handler and its local variables

vars == <<progress, store, resp, uploaded, hin, hout, calls>>

-----------------------------------------------------------------------------
(* Python values *)

\* None where a string is expected (dict.get of an absent key, category = None)
None == "<None>"

NoAmount == [ok |-> FALSE, neg |-> FALSE, cents |-> 0]

NoDate == [ok |-> FALSE, y |-> 0, m |-> 0, d |-> 0]

\* truthiness of an optional string: None and "" are falsy
Truthy(s) == s # None /\ s # ""

\* str(value)
Str(s) == IF s = None THEN "None" ELSE s

-----------------------------------------------------------------------------
(* str methods *)

Char(s, i) == SubSeq(s, i, i)

Digits == {"0", "1", "2", "3", "4", "5", "6", "7", "8", "9"}

DigitVal ==
    ("0" :> 0) @@ ("1" :> 1) @@ ("2" :> 2) @@ ("3" :> 3) @@ ("4" :> 4) @@
    ("5" :> 5) @@ ("6" :> 6) @@ ("7" :> 7) @@ ("8" :> 8) @@ ("9" :> 9)

UpperToLower ==
    ("A" :> "a") @@ ("B" :> "b") @@ ("C" :> "c") @@ ("D" :> "d") @@ ("E" :> "e") @@
    ("F" :> "f") @@ ("G" :> "g") @@ ("H" :> "h") @@ ("I" :> "i") @@ ("J" :> "j") @@
    ("K" :> "k") @@ ("L" :> "l") @@ ("M" :> "m") @@ ("N" :> "n") @@ ("O" :> "o") @@
    ("P" :> "p") @@ ("Q" :> "q") @@ ("R" :> "r") @@ ("S" :> "s") @@ ("T" :> "t") @@
    ("U" :> "u") @@ ("V" :> "v") @@ ("W" :> "w") @@ ("X" :> "x") @@ ("Y" :> "y") @@
    ("Z" :> "z")

\* table[c] where the table has c, else c
Translate(table, c) == IF c \in DOMAIN table THEN table[c] ELSE c

Whitespace == {" ", "\t", "\n", "\r"}

RECURSIVE Lower(_)
Lower(s) ==
    IF s = "" THEN ""
    ELSE Translate(UpperToLower, Char(s, 1)) \o Lower(Tail(s))

RECURSIVE LStrip(_)
LStrip(s) ==
    IF s # "" /\ Char(s, 1) \in Whitespace THEN LStrip(Tail(s)) ELSE s

RECURSIVE RStrip(_)
RStrip(s) ==
    IF s # "" /\ Char(s, Len(s)) \in Whitespace
    THEN RStrip(SubSeq(s, 1, Len(s) - 1))
    ELSE s

Strip(s) == RStrip(LStrip(s))

\* str(value).strip() if value else ""
ValueStr(value) == IF Truthy(value) THEN Strip(Str(value)) ELSE ""

\* sub in s
Contains(s, sub) ==
    \E i \in 1..(Len(s) - Len(sub) + 1) : SubSeq(s, i, i + Len(sub) - 1) = sub

\* re.sub(r"[^...]", "", s): keep the characters of s that are in keep
RECURSIVE KeepChars(_, _)
KeepChars(s, keep) ==
    IF s = "" THEN ""
    ELSE (IF Char(s, 1) \in keep THEN Char(s, 1) ELSE "") \o KeepChars(Tail(s), keep)

\* s.replace(c, "") for every single character c of drop
DropChars(s, drop) == KeepChars(s, {Char(s, i) : i \in 1..Len(s)} \ drop)

AllDigits(s) == \A i \in 1..Len(s) : Char(s, i) \in Digits

\* the number a non-empty run of digits denotes (0 for "")
RECURSIVE DigitsVal(_)
DigitsVal(s) ==
    IF s = "" THEN 0
    ELSE 10 * DigitsVal(SubSeq(s, 1, Len(s) - 1)) + DigitVal[Char(s, Len(s))]

\* s.split(sep) for a one-character sep
RECURSIVE Split(_, _)
Split(s, sep) ==
    IF \A i \in 1..Len(s) : Char(s, i) # sep THEN <<s>>
    ELSE LET i == CHOOSE j \in 1..Len(s) :
                      Char(s, j) = sep /\ \A k \in 1..(j - 1) : Char(s, k) # sep
         IN  <<SubSeq(s, 1, i - 1)>> \o Split(SubSeq(s, i + 1, Len(s)), sep)

-----------------------------------------------------------------------------
(* dict methods *)

Keys(row) == [i \in 1..Len(row) |-> row[i][1]]

KeySet(row) == {row[i][1] : i \in 1..Len(row)}

\* row.get(key)
Get(row, key) ==
    IF key \in KeySet(row)
    THEN row[CHOOSE i \in 1..Len(row) : row[i][1] = key][2]
    ELSE None

\* range(n), as 1..n
Indexes(n) == [i \in 1..n |-> i]

\* the first element of a sequence of optional results that is ok, else none
RECURSIVE FirstOk(_, _)
FirstOk(results, none) ==
    IF results = <<>> THEN none
    ELSE IF Head(results).ok THEN Head(results)
    ELSE FirstOk(Tail(results), none)

-----------------------------------------------------------------------------
(* csv_validator.py: column classification *)

AmountTokens == {"amount", "debit", "credit", "value", "charge"}

\* "date" in key.lower()
HasDateToken(key) == Contains(Lower(key), "date")

\* any(token in key.lower() for token in [...])
HasAmountToken(key) == \E token \in AmountTokens : Contains(Lower(key), token)

\* the test each of the three list comprehensions of __init__ applies to a header,
\* given whether the header has the date token and whether it has an amount token
ColumnTest(list, header, dated, amounted) ==
    CASE list = "date" -> Truthy(header) /\ dated
      [] list = "amount" -> Truthy(header) /\ amounted
      [] list = "description" -> Truthy(header) /\ ~dated /\ ~amounted

InColumnList(list, header) ==
    ColumnTest(list, header, HasDateToken(header), HasAmountToken(header))

\* [i for i, header in enumerate(headers) if ...], over the first n headers
RECURSIVE ColumnList(_, _, _)
ColumnList(list, headers, n) ==
    IF n = 0 THEN <<>>
    ELSE ColumnList(list, headers, n - 1)
         \o (IF InColumnList(list, headers[n]) THEN <<n>> ELSE <<>>)

\* the validator object: the headers and the three index lists
Validator(headers, columns) ==
    [headers |-> headers,
     date_columns |-> columns["date"],
     amount_columns |-> columns["amount"],
     description_columns |-> columns["description"]]

\* CSVRowValidator.__init__: the three index lists, each in header order
CSVRowValidator(headers) ==
    Validator(headers,
              [list \in {"date", "amount", "description"} |->
                  ColumnList(list, headers, Len(headers))])

-----------------------------------------------------------------------------
(* csv_validator.py: dates *)

\* the formats with day/month/year tried before month/day/year
DateFormats_DayFirst ==
    << [sep |-> "-", fields |-> <<"Y", "m", "d">>],
       [sep |-> "/", fields |-> <<"d", "m", "Y">>],
       [sep |-> "/", fields |-> <<"m", "d", "Y">>],
       [sep |-> "/", fields |-> <<"Y", "m", "d">>],
       [sep |-> "-", fields |-> <<"m", "d", "Y">>],
       [sep |-> "-", fields |-> <<"d", "m", "Y">>],
       [sep |-> "/", fields |-> <<"m", "d", "y">>],
       [sep |-> "/", fields |-> <<"d", "m", "y">>],
       [sep |-> "-", fields |-> <<"m", "d", "y">>],
       [sep |-> "-", fields |-> <<"d", "m", "y">>] >>

\* the ten strptime formats, in the order they are tried
DateFormats ==
    << [sep |-> "-", fields |-> <<"Y", "m", "d">>],
       [sep |-> "/", fields |-> <<"m", "d", "Y">>],
       [sep |-> "/", fields |-> <<"d", "m", "Y">>],
       [sep |-> "/", fields |-> <<"Y", "m", "d">>],
       [sep |-> "-", fields |-> <<"m", "d", "Y">>],
       [sep |-> "-", fields |-> <<"d", "m", "Y">>],
       [sep |-> "/", fields |-> <<"m", "d", "y">>],
       [sep |-> "/", fields |-> <<"d", "m", "y">>],
       [sep |-> "-", fields |-> <<"m", "d", "y">>],
       [sep |-> "-", fields |-> <<"d", "m", "y">>] >>

IsLeap(y) == (y % 4 = 0 /\ y % 100 # 0) \/ y % 400 = 0

DaysInMonth(y, m) ==
    IF m = 2 THEN (IF IsLeap(y) THEN 29 ELSE 28)
    ELSE IF m \in {4, 6, 9, 11} THEN 30 ELSE 31

\* datetime(y, m, d) does not raise
ValidYMD(y, m, d) == y >= 1 /\ m \in 1..12 /\ d >= 1 /\ d <= DaysInMonth(y, m)

\* the text a strptime directive accepts: %Y \d\d\d\d, %y \d\d,
\* %m 1[0-2]|0[1-9]|[1-9], %d 3[01]|[12]\d|0[1-9]|[1-9]| [1-9]
DirectiveMatches(dir, s) ==
    CASE dir = "Y" -> Len(s) = 4 /\ AllDigits(s)
      [] dir = "y" -> Len(s) = 2 /\ AllDigits(s)
      [] dir = "m" -> Len(s) \in {1, 2} /\ AllDigits(s) /\ DigitsVal(s) \in 1..12
      [] dir = "d" -> \/ Len(s) \in {1, 2} /\ AllDigits(s) /\ DigitsVal(s) \in 1..31
                      \/ Len(s) = 2 /\ Char(s, 1) = " " /\ Char(s, 2) \in Digits \ {"0"}

DirectiveVal(dir, s) ==
    CASE dir = "Y" -> DigitsVal(s)
      [] dir = "y" -> IF DigitsVal(s) < 69 THEN 2000 + DigitsVal(s) ELSE 1900 + DigitsVal(s)
      [] dir = "m" -> DigitsVal(s)
      [] dir = "d" -> IF Char(s, 1) = " " THEN DigitsVal(Tail(s)) ELSE DigitsVal(s)

\* datetime(y, m, d), NoDate for ValueError
DateTime(y, m, d) ==
    IF ValidYMD(y, m, d) THEN [ok |-> TRUE, y |-> y, m |-> m, d |-> d] ELSE NoDate

\* the date of three matched parts: vals[i] is the number part i denotes under fields[i]
DateOfParts(fields, vals) ==
    DateTime(vals[CHOOSE i \in 1..3 : fields[i] \in {"Y", "y"}],
             vals[CHOOSE i \in 1..3 : fields[i] = "m"],
             vals[CHOOSE i \in 1..3 : fields[i] = "d"])

\* strptime on the parts between the separators
StrptimeParts(parts, fields) ==
    IF Len(parts) = 3 /\ \A i \in 1..3 : DirectiveMatches(fields[i], parts[i])
    THEN DateOfParts(fields, [i \in 1..3 |-> DirectiveVal(fields[i], parts[i])])
    ELSE NoDate

\* datetime.strptime(candidate, fmt), NoDate for ValueError
strptime(candidate, fmt) == StrptimeParts(Split(candidate, fmt.sep), fmt.fields)

\* the HH[:MM[:SS]] part of an ISO timestamp
IsoTimeOk(t) ==
    LET parts == Split(t, ":")
    IN  /\ Len(parts) \in 1..3
        /\ \A i \in 1..Len(parts) : Len(parts[i]) = 2 /\ AllDigits(parts[i])
        /\ DigitsVal(parts[1]) <= 23
        /\ \A i \in 2..Len(parts) : DigitsVal(parts[i]) <= 59

\* datetime.fromisoformat(candidate) for YYYY-MM-DD[*HH[:MM[:SS]]], NoDate for ValueError
fromisoformat(candidate) ==
    IF /\ Len(candidate) >= 10
       /\ AllDigits(SubSeq(candidate, 1, 4) \o SubSeq(candidate, 6, 7)
                        \o SubSeq(candidate, 9, 10))
       /\ Char(candidate, 5) = "-" /\ Char(candidate, 8) = "-"
       /\ \/ Len(candidate) = 10
          \/ Len(candidate) > 11 /\ IsoTimeOk(SubSeq(candidate, 12, Len(candidate)))
    THEN DateOfParts(<<"Y", "m", "d">>,
                     [i \in 1..3 |->
                         DigitsVal(SubSeq(candidate, <<1, 6, 9>>[i], <<4, 7, 10>>[i]))])
    ELSE NoDate

\* re.sub(r"(\d+)(st|nd|rd|th)", r"\1", s), from character i on
RECURSIVE RemoveOrdinalsFrom(_, _)
RemoveOrdinalsFrom(s, i) ==
    IF i > Len(s) THEN ""
    ELSE IF /\ i >= 2 /\ i + 1 <= Len(s)
            /\ Char(s, i - 1) \in Digits
            /\ SubSeq(s, i, i + 1) \in {"st", "nd", "rd", "th"}
         THEN RemoveOrdinalsFrom(s, i + 2)
         ELSE Char(s, i) \o RemoveOrdinalsFrom(s, i + 1)

\* "try: return a; except ValueError: return b" on optional results
OrElse(first, second) == IF first.ok THEN first ELSE second

\* the ten formats in turn, then ISO
ParseCandidate(candidate, formats) ==
    OrElse(FirstOk([k \in 1..Len(formats) |-> strptime(candidate, formats[k])], NoDate),
           fromisoformat(candidate))

\* the stripped cell: skipped when empty, else freed of ordinals and parsed
ParseStripped(stripped) ==
    IF stripped = "" THEN NoDate
    ELSE ParseCandidate(RemoveOrdinalsFrom(stripped, 1), DateFormats)

\* one cell of extract_transaction_date
ParseDateCell(value) == ParseStripped(Strip(Str(value)))

\* the cells extract_transaction_date reads, in the order it reads them: those of the
\* date columns, then (the fallback loop) those of the row's keys that have "date";
\* a cell the loops skip is "", which parses to no date
DateCells(v, row_data) ==
    [k \in 1..Len(v.date_columns) |->
        ValueStr(Get(row_data, v.headers[v.date_columns[k]]))]
    \o [k \in 1..Len(row_data) |->
           IF HasDateToken(row_data[k][1]) THEN row_data[k][2] ELSE ""]

\* the first cell that parses
FirstDate(cells) == FirstOk([k \in 1..Len(cells) |-> ParseDateCell(cells[k])], NoDate)

\* CSVRowValidator.extract_transaction_date
V_extract_transaction_date(v, row_data) ==
    IF row_data = <<>> THEN NoDate ELSE FirstDate(DateCells(v, row_data))

-----------------------------------------------------------------------------
(* csv_validator.py: amounts *)

\* the float the amount denotes, in hundredths
Value(a) == IF a.neg THEN 0 - a.cents ELSE a.cents

\* -abs(amount)
NegAbs(a) == [a EXCEPT !.neg = TRUE]

\* abs(amount)
Abs(a) == [a EXCEPT !.neg = FALSE]

\* float(s) for s over the characters 0-9, "." and "-"; NoAmount for ValueError.
\* Fraction digits after the second are not kept (cells carry at most two).
\* the float of a sign, the digits before the point and the digits after it
FloatOf(neg, whole, frac) ==
    IF AllDigits(whole \o frac) /\ whole \o frac # ""
    THEN [ok |-> TRUE, neg |-> neg,
          cents |-> 100 * DigitsVal(whole) + DigitsVal(SubSeq(frac \o "00", 1, 2))]
    ELSE NoAmount

\* the float of a sign and the parts around the points
FloatParts(neg, parts) ==
    IF Len(parts) > 2 THEN NoAmount
    ELSE FloatOf(neg, parts[1], IF Len(parts) = 2 THEN parts[2] ELSE "")

\* float(s) for s over the characters 0-9, "." and "-"; NoAmount for ValueError.
\* Fraction digits after the second are not kept (cells carry at most two).
Float(s) ==
    IF s # "" /\ Char(s, 1) = "-" THEN FloatParts(TRUE, Split(Tail(s), "."))
    ELSE FloatParts(FALSE, Split(s, "."))

\* "if 'credit' in key_lower and 'debit' not in key_lower: amount = -abs(amount)"
CreditSign(amount, credit, debit) ==
    IF credit /\ ~debit THEN NegAbs(amount) ELSE amount

\* a debit rule that leaves the sign of the cell
DebitSign_KeepsSign(amount, debit) == amount

\* "if 'debit' in key_lower and amount < 0: amount = abs(amount)"
DebitSign(amount, debit) ==
    IF debit /\ Value(amount) < 0 THEN Abs(amount) ELSE amount

\* the column rule on the lowered column name
SignByColumn(amount, credit, debit) == DebitSign(CreditSign(amount, credit, debit), debit)

\* the column-semantic sign rule that ends _parse_amount_value
ColumnSign(amount, key) ==
    SignByColumn(amount, Contains(Lower(key), "credit"), Contains(Lower(key), "debit"))

\* a parse that forgets the parentheses
SignedAmount_NoParentheses(cleaned, parsed, is_negative, key) ==
    IF cleaned \in {"", "-", ".", "-."} \/ ~parsed.ok THEN NoAmount
    ELSE ColumnSign(parsed, key)

\* the cleaned text and its float: None for the four texts refused and for ValueError,
\* else the float, negated for a parenthesised cell, under the column rule
SignedAmount(cleaned, parsed, is_negative, key) ==
    IF cleaned \in {"", "-", ".", "-."} \/ ~parsed.ok THEN NoAmount
    ELSE ColumnSign(IF is_negative THEN NegAbs(parsed) ELSE parsed, key)

\* the text left when the currency symbols, the commas and all but 0-9 . - are removed
Cleaned(value_str) ==
    KeepChars(DropChars(value_str, {",", "$", "£", "€"}), Digits \cup {".", "-"})

ParseCleaned(cleaned, is_negative, key) ==
    SignedAmount(cleaned, Float(cleaned), is_negative, key)

\* _parse_amount_value past the "(...)" test
ParseSigned(value_str, is_negative, key) ==
    ParseCleaned(Cleaned(IF is_negative THEN SubSeq(value_str, 2, Len(value_str) - 1)
                         ELSE value_str),
                 is_negative, key)

\* CSVRowValidator._parse_amount_value
parse_amount_value(value_str, key) ==
    IF value_str = "" THEN NoAmount
    ELSE ParseSigned(value_str,
                     Char(value_str, 1) = "(" /\ Char(value_str, Len(value_str)) = ")",
                     key)

\* one cell of extract_amount: skipped when None or "", else parsed under its column name
ParseRawValue(raw_value, key) ==
    IF raw_value \in {None, ""} THEN NoAmount
    ELSE parse_amount_value(Strip(Str(raw_value)), key)

ParseAmountCell(row_data, key) == ParseRawValue(Get(row_data, key), key)

\* [key for key in row_data.keys() if any(token in key.lower() ...)]
RECURSIVE AmountKeys(_)
AmountKeys(keys) ==
    IF keys = <<>> THEN <<>>
    ELSE (IF HasAmountToken(Head(keys)) THEN <<Head(keys)>> ELSE <<>>)
         \o AmountKeys(Tail(keys))

\* CSVRowValidator.extract_amount
\* "search_keys = candidate_keys if candidate_keys else row_data.keys()"
SearchKeys(candidate_keys, keys) == IF candidate_keys # <<>> THEN candidate_keys ELSE keys

\* the column names extract_amount reads, in the order it reads them: the amount
\* columns of the header, then (the fallback loop) the search keys of the row
AmountColumns(v, row_data) ==
    [k \in 1..Len(v.amount_columns) |-> v.headers[v.amount_columns[k]]]
    \o SearchKeys(AmountKeys(Keys(row_data)), Keys(row_data))

\* the last cell that parses
FirstAmount_Last(row_data, keys) ==
    FirstOk([k \in 1..Len(keys) |-> ParseAmountCell(row_data, keys[Len(keys) + 1 - k])],
            NoAmount)

\* the first cell that parses
FirstAmount(row_data, keys) ==
    FirstOk([k \in 1..Len(keys) |-> ParseAmountCell(row_data, keys[k])], NoAmount)

\* CSVRowValidator.extract_amount
V_extract_amount(v, row_data) ==
    IF row_data = <<>> THEN NoAmount
    ELSE FirstAmount(row_data, AmountColumns(v, row_data))

-----------------------------------------------------------------------------
(* csv_validator.py: description and validity *)

\* CSVRowValidator.has_description
V_has_description(v, row_data) ==
    \/ \E k \in 1..Len(v.description_columns) :
          ValueStr(Get(row_data, v.headers[v.description_columns[k]])) # ""
    \/ \E k \in 1..Len(row_data) :
          /\ ~HasDateToken(row_data[k][1])
          /\ ~HasAmountToken(row_data[k][1])
          /\ ValueStr(row_data[k][2]) # ""

\* a validity test that does not ask for a description
V_is_row_valid_NoDescription(v, row_data) ==
    /\ row_data # <<>>
    /\ V_extract_transaction_date(v, row_data).ok
    /\ V_extract_amount(v, row_data).ok

\* CSVRowValidator.is_row_valid
V_is_row_valid(v, row_data) ==
    IF row_data = <<>> THEN FALSE
    ELSE IF ~V_extract_transaction_date(v, row_data).ok THEN FALSE
    ELSE IF ~V_extract_amount(v, row_data).ok THEN FALSE
    ELSE IF ~V_has_description(v, row_data) THEN FALSE
    ELSE TRUE

\* key.lower() on a key that is None (the key csv.DictReader gives to surplus cells)
\* raises AttributeError, which none of the four methods catches
LowerRaises(key) == key = None

\* the fallback loop of extract_transaction_date reaches a key that is None: no cell
\* before it made the loop return
RECURSIVE DateFallbackRaises(_)
DateFallbackRaises(items) ==
    IF items = <<>> THEN FALSE
    ELSE IF LowerRaises(Head(items)[1]) THEN TRUE
    ELSE IF HasDateToken(Head(items)[1]) /\ ParseDateCell(Head(items)[2]).ok THEN FALSE
    ELSE DateFallbackRaises(Tail(items))

\* extract_transaction_date raises: the date columns gave no date and the fallback
\* loop reaches the None key
DateRaises(v, row_data) ==
    /\ row_data # <<>>
    /\ ~FirstDate([k \in 1..Len(v.date_columns) |->
                      ValueStr(Get(row_data, v.headers[v.date_columns[k]]))]).ok
    /\ DateFallbackRaises(row_data)

\* extract_amount raises: the amount columns gave no amount and the comprehension of
\* candidate_keys lowers every key of the row
AmountRaises(v, row_data) ==
    /\ row_data # <<>>
    /\ ~FirstAmount(row_data,
                    [k \in 1..Len(v.amount_columns) |-> v.headers[v.amount_columns[k]]]).ok
    /\ \E k \in 1..Len(row_data) : LowerRaises(row_data[k][1])

\* the fallback loop of has_description reaches a key that is None
RECURSIVE DescriptionFallbackRaises(_)
DescriptionFallbackRaises(items) ==
    IF items = <<>> THEN FALSE
    ELSE IF LowerRaises(Head(items)[1]) THEN TRUE
    ELSE IF /\ ~HasDateToken(Head(items)[1])
            /\ ~HasAmountToken(Head(items)[1])
            /\ ValueStr(Head(items)[2]) # "" THEN FALSE
    ELSE DescriptionFallbackRaises(Tail(items))

\* has_description raises: no description column has text and the fallback loop
\* reaches the None key
DescriptionRaises(v, row_data) ==
    /\ \A k \in 1..Len(v.description_columns) :
           ValueStr(Get(row_data, v.headers[v.description_columns[k]])) = ""
    /\ DescriptionFallbackRaises(row_data)

\* is_row_valid raises: one of the three calls raises when it is made, or a debug
\* message lowers the keys of the row
ValidRaises(v, row_data, date, amount) ==
    /\ row_data # <<>>
    /\ \/ DateRaises(v, row_data)
       \/ ~date.ok /\ \E k \in 1..Len(row_data) : LowerRaises(row_data[k][1])
       \/ date.ok /\ AmountRaises(v, row_data)
       \/ date.ok /\ ~amount.ok /\ \E k \in 1..Len(row_data) : LowerRaises(row_data[k][1])
       \/ date.ok /\ amount.ok /\ DescriptionRaises(v, row_data)

\* what a call gives: the AttributeError, or the value returned
Outcome(raises, value) ==
    IF raises THEN [raised |-> TRUE] ELSE [raised |-> FALSE, value |-> value]

\* the module-level extract_transaction_date: a validator over the row's own keys
\* the module-level extract_transaction_date: a validator over the row's own keys
extract_transaction_date(row_data) ==
    V_extract_transaction_date(CSVRowValidator(Keys(row_data)), row_data)

\* the module-level extract_amount: a validator over the row's own keys
extract_amount(row_data) ==
    V_extract_amount(CSVRowValidator(Keys(row_data)), row_data)

-----------------------------------------------------------------------------
(* main.py: fingerprint and matching *)

\* normalize_value
normalize_value(value) == Strip(Lower(Str(value)))

\* strftime("%Y-%m-%d")
DigitChar(i) == SubSeq("0123456789", i + 1, i + 1)

\* the last width digits of n, zero-padded (width <= 4)
Pad(n, width) ==
    SubSeq(DigitChar((n \div 1000) % 10) \o DigitChar((n \div 100) % 10)
               \o DigitChar((n \div 10) % 10) \o DigitChar(n % 10),
           5 - width, 4)

FormatDate(date) == Pad(date.y, 4) \o "-" \o Pad(date.m, 2) \o "-" \o Pad(date.d, 2)

\* decimal digits of a natural number
RECURSIVE NatStr(_)
NatStr(n) ==
    IF n < 10 THEN Pad(n, 1) ELSE NatStr(n \div 10) \o Pad(n % 10, 1)

\* f"{amount:.2f}"
FormatAmount(amount) ==
    (IF amount.neg THEN "-" ELSE "") \o NatStr(amount.cents \div 100) \o "."
        \o Pad(amount.cents % 100, 2)

\* a description taken from the first column, whatever its role
FingerprintDescription_FirstColumn(row_data) ==
    IF row_data = <<>> THEN "" ELSE ValueStr(Head(row_data)[2])

\* the description loop of generate_row_fingerprint: the first value, in iteration
\* order, of a non-date, non-amount key that is non-empty after strip
RECURSIVE FingerprintDescription(_)
FingerprintDescription(row_data) ==
    IF row_data = <<>> THEN ""
    ELSE IF \/ HasDateToken(Head(row_data)[1])
            \/ HasAmountToken(Head(row_data)[1])
            \/ ValueStr(Head(row_data)[2]) = ""
         THEN FingerprintDescription(Tail(row_data))
         ELSE ValueStr(Head(row_data)[2])

\* a fingerprint of the date and the amount alone
FingerprintOf_NoDescription(date, amount, description) ==
    (IF date.ok THEN FormatDate(date) ELSE "") \o "|"
        \o (IF amount.ok THEN FormatAmount(amount) ELSE "") \o "|"

\* the string that is hashed
FingerprintOf(date, amount, description) ==
    (IF date.ok THEN FormatDate(date) ELSE "") \o "|"
        \o (IF amount.ok THEN FormatAmount(amount) ELSE "") \o "|"
        \o (IF description # "" THEN normalize_value(description) ELSE "")

fingerprint_str(row_data) ==
    FingerprintOf(extract_transaction_date(row_data), extract_amount(row_data),
                  FingerprintDescription(row_data))

\* hashlib.md5(s).hexdigest(): a non-empty string, taken as injective on s
md5_hexdigest(s) == "md5:" \o s

\* generate_row_fingerprint
generate_row_fingerprint(row_data) == md5_hexdigest(fingerprint_str(row_data))

\* rows_match
\* rows_match, given the two fingerprints
MatchByFingerprint(row1, row2, fingerprint1, fingerprint2) ==
    IF fingerprint1 = fingerprint2 /\ fingerprint1 # "" THEN TRUE
    ELSE IF KeySet(row1) # KeySet(row2) THEN FALSE
    ELSE \A key \in KeySet(row1) :
            normalize_value(Get(row1, key)) = normalize_value(Get(row2, key))

\* rows_match
rows_match(row1, row2) ==
    MatchByFingerprint(row1, row2, generate_row_fingerprint(row1),
                       generate_row_fingerprint(row2))

-----------------------------------------------------------------------------
(* The requests the model sends *)

\* rows per uploaded file
MaxRows == 2

\* the header row of the uploaded files
Headers == <<"Date", "Description", "Amount">>

CsvRow(date, description, amount) ==
    <<<<"Date", date>>, <<"Description", description>>, <<"Amount", amount>>>>

\* Two transactions, and a row without description, which the validator skips.
RowA == CsvRow("2024-01-01", "Grocery Store", "50.00")

RowB == CsvRow("2024-01-02", "Gas Station", "(30.00)")

RowBad == CsvRow("2024-01-03", "", "25.00")

UploadRows == {RowA, RowB, RowBad}

\* the transaction of RowA as another export of the bank writes it
RowAAgain == CsvRow("01/01/2024", "GROCERY STORE", "$50.00")

\* two rows from which no date, no amount and no description can be extracted
RowEmpty == CsvRow("", "", "")

RowUnreadable == CsvRow("soon", "", "n/a")

\* the rows whose fingerprints are tabulated
TableRows == UploadRows \cup {RowAAgain, RowEmpty, RowUnreadable}

SeqsUpTo(S, n) == UNION {[1..k -> S] : k \in 0..n}

UploadContents ==
    {[empty |-> TRUE, fieldnames |-> <<>>, rows |-> <<>>],
     [empty |-> FALSE, fieldnames |-> <<>>, rows |-> <<>>]}
    \cup {[empty |-> FALSE, fieldnames |-> Headers, rows |-> rows] :
             rows \in SeqsUpTo(UploadRows, MaxRows)}

FileNames == {"a.csv", "notes.txt"}

Categories == {"Groceries", "Income"}

\* what call_ollama gives: a category, or "" for a raised exception
LlmOutcomes == Categories \cup {""}

RowIndexes == (0 - MaxRows - 1)..MaxRows

\* The values of is_row_valid, generate_row_fingerprint and rows_match on the rows the
\* requests carry, computed once; the handlers below read them from these tables.
ValidTable ==
    [input \in {<<Headers, row>> : row \in UploadRows} |->
        V_is_row_valid(CSVRowValidator(input[1]), input[2])]

FingerprintTable ==
    [row \in TableRows |-> generate_row_fingerprint(row)]

RowsMatchTable ==
    [pair \in {<<row1, row2>> : row1 \in UploadRows, row2 \in UploadRows} |->
        rows_match(pair[1], pair[2])]

\* CSVRowValidator(fieldnames).is_row_valid(row)
IsRowValid(fieldnames, row) == ValidTable[<<fieldnames, row>>]

\* generate_row_fingerprint(row)
Fingerprint(row) == FingerprintTable[row]

\* rows_match(row1, row2)
RowsMatch(row1, row2) == RowsMatchTable[<<row1, row2>>]

-----------------------------------------------------------------------------
(* main.py: the mapping store and the merge *)

RowMapping(row_index, original_data, category, mapped, source_file) ==
    [row_index |-> row_index, original_data |-> original_data, category |-> category,
     mapped |-> mapped, source_file |-> source_file]

StoreFiles(st) == {st[i][1] : i \in 1..Len(st)}

\* load_mappings_for_file: all_mappings.get(filename, [])
load_mappings_for_file(st, filename) ==
    IF filename \in StoreFiles(st)
    THEN st[CHOOSE i \in 1..Len(st) : st[i][1] = filename][2]
    ELSE <<>>

\* a save that writes a dict holding the one file
save_mappings_for_file_OneFile(st, filename, rows) == <<<<filename, rows>>>>

\* save_mappings_for_file: all_mappings[filename] = rows, the whole dict rewritten
save_mappings_for_file(st, filename, rows) ==
    IF filename \in StoreFiles(st)
    THEN [i \in 1..Len(st) |-> IF st[i][1] = filename THEN <<filename, rows>> ELSE st[i]]
    ELSE Append(st, <<filename, rows>>)

\* load_all_mappings: every file's rows, flattened in dict order
RECURSIVE load_all_mappings(_)
load_all_mappings(st) ==
    IF st = <<>> THEN <<>> ELSE Head(st)[2] \o load_all_mappings(Tail(st))

\* the least and the greatest of a set of list positions, 0 when it is empty
FirstOf(hits) == IF hits = {} THEN 0 ELSE CHOOSE i \in hits : \A j \in hits : i <= j

LastOf(hits) == IF hits = {} THEN 0 ELSE CHOOSE i \in hits : \A j \in hits : i >= j

\* generate_row_fingerprint(row.get("original_data")) of every row of a list
FingerprintsOf(rows) == [i \in 1..Len(rows) |-> Fingerprint(rows[i].original_data)]

\* the second loop of merge_mappings_for_file: the existing rows whose fingerprint is
\* truthy and not yet seen, each fingerprint once
RECURSIVE AppendUnseen(_, _, _)
AppendUnseen(existing_rows, fingerprints, seen_fingerprints) ==
    IF existing_rows = <<>> THEN <<>>
    ELSE IF Head(fingerprints) # "" /\ Head(fingerprints) \notin seen_fingerprints
    THEN <<Head(existing_rows)>>
         \o AppendUnseen(Tail(existing_rows), Tail(fingerprints),
                         seen_fingerprints \cup {Head(fingerprints)})
    ELSE AppendUnseen(Tail(existing_rows), Tail(fingerprints), seen_fingerprints)

\* a first loop that records no fingerprint
SeenFingerprints_None(fingerprints) == {}

\* seen_fingerprints after the first loop: the truthy fingerprints of the new rows
SeenFingerprints(fingerprints) ==
    {fingerprints[i] : i \in 1..Len(fingerprints)} \ {""}

\* a merge that appends every stored row, seen or not
final_rows_AppendAll(new_rows, existing_rows) == new_rows \o existing_rows

\* final_rows of merge_mappings_for_file: all new rows, then the unseen existing rows
final_rows(new_rows, existing_rows) ==
    new_rows \o AppendUnseen(existing_rows, FingerprintsOf(existing_rows),
                             SeenFingerprints(FingerprintsOf(new_rows)))

\* a merge that replaces the stored list by the new rows
merge_mappings_for_file_Replace(st, filename, new_rows, existing_rows) ==
    save_mappings_for_file(st, filename, new_rows)

\* merge_mappings_for_file; the value is the store it writes
merge_mappings_for_file(st, filename, new_rows, existing_rows) ==
    save_mappings_for_file(st, filename,
        IF existing_rows = <<>> THEN new_rows ELSE final_rows(new_rows, existing_rows))

\* the category of all_mappings[i], None when i = 0
CategoryAt(all_mappings, i) == IF i = 0 THEN None ELSE all_mappings[i].category

\* a scan that returns the category of the last match
FirstMatchingCategory_Last(all_mappings, row_data) ==
    CategoryAt(all_mappings,
               LastOf({i \in 1..Len(all_mappings) :
                          /\ all_mappings[i].mapped
                          /\ Truthy(all_mappings[i].category)
                          /\ RowsMatch(row_data, all_mappings[i].original_data)}))

\* the loop of find_matching_category over the loaded mappings
FirstMatchingCategory(all_mappings, row_data) ==
    CategoryAt(all_mappings,
               FirstOf({i \in 1..Len(all_mappings) :
                           /\ all_mappings[i].mapped
                           /\ Truthy(all_mappings[i].category)
                           /\ RowsMatch(row_data, all_mappings[i].original_data)}))

\* find_matching_category: the first mapped, categorised mapping that matches
find_matching_category(st, row_data) ==
    FirstMatchingCategory(load_all_mappings(st), row_data)

-----------------------------------------------------------------------------
(* main.py: POST /upload *)

\* a read loop that keeps every row
ReadRows_KeepAll(fieldnames, data_rows, filename, rows) ==
    [k \in 1..Len(data_rows) |-> RowMapping(k - 1, data_rows[k], None, FALSE, filename)]

\* the read loop: the valid rows, indexed by their position among the valid rows
RECURSIVE ReadRows(_, _, _, _)
ReadRows(fieldnames, data_rows, filename, rows) ==
    IF data_rows = <<>> THEN rows
    ELSE ReadRows(fieldnames, Tail(data_rows), filename,
                  IF IsRowValid(fieldnames, Head(data_rows))
                  THEN Append(rows, RowMapping(Len(rows), Head(data_rows), None, FALSE,
                                               filename))
                  ELSE rows)

\* skipped_count of the read loop: the rows that are not valid
RECURSIVE SkippedCount(_, _)
SkippedCount(fieldnames, data_rows) ==
    IF data_rows = <<>> THEN 0
    ELSE (IF IsRowValid(fieldnames, Head(data_rows)) THEN 0 ELSE 1)
         + SkippedCount(fieldnames, Tail(data_rows))

\* row["category"] = existing_row.get("category"); row["mapped"] = True
Categorised(row, existing_row) ==
    [row EXCEPT !.category = existing_row.category, !.mapped = TRUE]

\* the row with the category of existing_mappings[i], as it is when i = 0
TakeFrom(row, existing_mappings, i) ==
    IF i = 0 THEN row ELSE Categorised(row, existing_mappings[i])

\* "for existing_row in existing_mappings: if rows_match(...) and mapped: ...; break"
CarryByContent(row, existing_mappings) ==
    TakeFrom(row, existing_mappings,
             FirstOf({i \in 1..Len(existing_mappings) :
                         /\ RowsMatch(row.original_data, existing_mappings[i].original_data)
                         /\ existing_mappings[i].mapped}))

\* the keys of existing_by_fingerprint hold fingerprint at these positions of the list
PositionsOf(fingerprint, fingerprints) ==
    {i \in 1..Len(fingerprints) : fingerprints[i] # "" /\ fingerprints[i] = fingerprint}

\* the body of the second loop, i the position of existing_by_fingerprint[fingerprint]
\* (0 when the fingerprint is not in the dict): the content match is the fallback
CarryFrom(row, existing_mappings, i) ==
    IF i = 0 THEN CarryByContent(row, existing_mappings)
    ELSE IF existing_mappings[i].mapped THEN Categorised(row, existing_mappings[i])
    ELSE row

\* the lookup in existing_by_fingerprint: the last existing row of a fingerprint wins
CarryByFingerprint(row, existing_mappings, fingerprints) ==
    CarryFrom(row, existing_mappings,
              LastOf(PositionsOf(Fingerprint(row.original_data), fingerprints)))

\* the first carry-over loop
CarriedByContent(rows, existing_mappings) ==
    [i \in 1..Len(rows) |-> CarryByContent(rows[i], existing_mappings)]

\* the second carry-over loop
CarriedByFingerprint(rows, existing_mappings, fingerprints) ==
    [i \in 1..Len(rows) |-> CarryByFingerprint(rows[i], existing_mappings, fingerprints)]

\* an upload that carries no category over
CarryOver_Nothing(rows, existing_mappings) == rows

\* the rows after both carry-over loops
CarryOver(rows, existing_mappings) ==
    CarriedByFingerprint(CarriedByContent(rows, existing_mappings), existing_mappings,
                         FingerprintsOf(existing_mappings))

MappedCount(rows) == Cardinality({i \in 1..Len(rows) : rows[i].mapped})

EndsWithCsv(filename) ==
    Len(filename) >= 4 /\ SubSeq(Lower(filename), Len(filename) - 3, Len(filename)) = ".csv"

\* a refusal that empties the progress file
Refused_Clearing(op, status) ==
    /\ resp' = [op |-> op, status |-> status]
    /\ progress' = <<>>
    /\ UNCHANGED <<store, uploaded>>

\* raise HTTPException: nothing is written
Refused(op, status) ==
    /\ resp' = [op |-> op, status |-> status]
    /\ UNCHANGED <<progress, store, uploaded>>

\* upload_file from save_progress on
UploadSave(filename, data_rows, rows, existing_mappings, skipped_count) ==
    /\ progress' = rows
    /\ store' = merge_mappings_for_file(store, filename, rows, existing_mappings)
    /\ resp' = [op |-> "upload", status |-> 200, total_rows |-> Len(rows),
                skipped_count |-> skipped_count]
    /\ uploaded' = [filename |-> filename, rows |-> data_rows,
                    repeated |-> filename = uploaded.filename /\ data_rows = uploaded.rows]

\* upload_file once the rows are read
UploadRead(filename, data_rows, rows, existing_mappings, skipped_count) ==
    IF Len(data_rows) > 0 /\ Len(rows) = 0 THEN Refused("upload", 400)
    ELSE UploadSave(filename, data_rows,
                    IF existing_mappings # <<>> THEN CarryOver(rows, existing_mappings)
                    ELSE rows,
                    existing_mappings, skipped_count)

Upload(filename, contents) ==
    IF \/ filename = ""
       \/ ~EndsWithCsv(filename)
       \/ contents.empty
       \/ contents.fieldnames = <<>>
    THEN Refused("upload", 400)
    ELSE UploadRead(filename, contents.rows,
                    ReadRows(contents.fieldnames, contents.rows, filename, <<>>),
                    load_mappings_for_file(store, filename),
                    SkippedCount(contents.fieldnames, contents.rows))

-----------------------------------------------------------------------------
(* main.py: POST /map, /auto-map-all, /reset-mappings, GET /spending-summary *)

\* get_progress: what GET /progress returns for the progress file
get_progress(progress_data) ==
    IF progress_data = <<>> THEN [rows |-> <<>>, total_rows |-> 0, mapped_count |-> 0]
    ELSE [rows |-> progress_data, total_rows |-> Len(progress_data),
          mapped_count |-> MappedCount(progress_data)]

\* progress_data[0].get("source_file")
CurrentFilename(progress_data) == progress_data[1].source_file

\* the store after "if current_filename: save_mappings_for_file(...)"
SaveCurrent(st, progress_data) ==
    IF Truthy(CurrentFilename(progress_data))
    THEN save_mappings_for_file(st, CurrentFilename(progress_data), progress_data)
    ELSE st

\* an index that always lands on the last row
ListIndex_Last(n, row_index) == n

\* progress_data[row_index], 1-based; 0 when Python raises IndexError
ListIndex(n, row_index) ==
    IF row_index >= 0 THEN (IF row_index < n THEN row_index + 1 ELSE 0)
    ELSE (IF 0 - row_index <= n THEN n + row_index + 1 ELSE 0)

\* save_progress and the save under the current file name, with the response
Saved(op, progress_data, response) ==
    /\ progress' = progress_data
    /\ store' = SaveCurrent(store, progress_data)
    /\ resp' = response
    /\ UNCHANGED uploaded

\* a map that sets the category and leaves the mapped flag
MapAt_CategoryOnly(k, category) ==
    IF k = 0 THEN Refused("map", 500)
    ELSE Saved("map", [progress EXCEPT ![k].category = category],
               [op |-> "map", status |-> 200])

\* map_row past the checks, k the position of the row
MapAt(k, category) ==
    IF k = 0 THEN Refused("map", 500)
    ELSE Saved("map", [progress EXCEPT ![k].category = category, ![k].mapped = TRUE],
               [op |-> "map", status |-> 200])

MapRow(row_index, category) ==
    IF progress = <<>> THEN Refused("map", 404)
    ELSE IF row_index >= Len(progress) THEN Refused("map", 400)
    ELSE MapAt(ListIndex(Len(progress), row_index), category)

\* "if matching_category: ... else: suggested_category = call_ollama(prompt)"
ChosenCategory(matching_category, suggested_category) ==
    IF Truthy(matching_category) THEN matching_category ELSE suggested_category

\* one turn of the loop of auto_map_all with the category found for row k, "" when
\* call_ollama raised: the row is updated or the error recorded, then both files saved
AutoMapSave(k, category, acc) ==
    IF category = ""
    THEN [acc EXCEPT !.store = SaveCurrent(acc.store, acc.progress),
                     !.errors = Append(acc.errors, k)]
    ELSE [acc EXCEPT !.progress[k].category = category,
                     !.progress[k].mapped = TRUE,
                     !.store = SaveCurrent(acc.store,
                                   [acc.progress EXCEPT ![k].category = category,
                                                        ![k].mapped = TRUE]),
                     !.mapped_count = acc.mapped_count + 1]

\* a turn that asks the LLM for every row
AutoMapTurn_AlwaysLlm(k, matching_category, suggested_category, acc) ==
    AutoMapSave(k, suggested_category, [acc EXCEPT !.llm_calls = Append(@, k)])

\* one turn of the loop for row k: call_ollama is called when find_matching_category
\* gave nothing
AutoMapTurn(k, matching_category, suggested_category, acc) ==
    AutoMapSave(k, ChosenCategory(matching_category, suggested_category),
                IF Truthy(matching_category) THEN acc
                ELSE [acc EXCEPT !.llm_calls = Append(@, k)])

\* the loop of auto_map_all over the rows that were unmapped at the start; llm[k] is
\* what call_ollama gives for row k if it is called: a category, or "" for an exception
RECURSIVE AutoMapLoop(_, _, _)
AutoMapLoop(unmapped_rows, llm, acc) ==
    IF unmapped_rows = <<>> THEN acc
    ELSE AutoMapLoop(Tail(unmapped_rows), llm,
             AutoMapTurn(Head(unmapped_rows),
                 find_matching_category(acc.store,
                     acc.progress[Head(unmapped_rows)].original_data),
                 llm[Head(unmapped_rows)],
                 acc))

\* [idx for idx, row in enumerate(progress_data) if not row.get("mapped")]
RECURSIVE UnmappedRows(_, _)
UnmappedRows(progress_data, n) ==
    IF n = 0 THEN <<>>
    ELSE UnmappedRows(progress_data, n - 1)
         \o (IF progress_data[n].mapped THEN <<>> ELSE <<n>>)

\* auto_map_all after the loop
AutoMapDone(total_unmapped, done) ==
    /\ progress' = done.progress
    /\ store' = done.store
    /\ resp' = [op |-> "auto-map-all", status |-> 200, mapped_count |-> done.mapped_count,
                total_unmapped |-> total_unmapped, errors |-> done.errors,
                llm_calls |-> done.llm_calls]
    /\ UNCHANGED uploaded

\* auto_map_all past the 404 check
AutoMapRows(unmapped_rows, llm) ==
    IF unmapped_rows = <<>>
    THEN /\ resp' = [op |-> "auto-map-all", status |-> 200, mapped_count |-> 0,
                     total_unmapped |-> 0, errors |-> <<>>, llm_calls |-> <<>>]
         /\ UNCHANGED <<progress, store, uploaded>>
    ELSE AutoMapDone(Len(unmapped_rows),
             AutoMapLoop(unmapped_rows, llm,
                 [progress |-> progress, store |-> store, mapped_count |-> 0,
                  errors |-> <<>>, llm_calls |-> <<>>]))

AutoMapAll(llm) ==
    IF progress = <<>> THEN Refused("auto-map-all", 404)
    ELSE AutoMapRows(UnmappedRows(progress, Len(progress)), llm)

\* extract_amount and extract_transaction_date of the rows the store can hold
SummaryTable ==
    [row \in TableRows |->
        [amount |-> extract_amount(row), date |-> extract_transaction_date(row)]]

Extracted(row) == SummaryTable[row]

\* transaction_date.strftime("%Y-%m"), or "Unknown"
MonthKey(date) ==
    IF date.ok THEN Pad(date.y, 4) \o "-" \o Pad(date.m, 2) ELSE "Unknown"

\* -abs(amount) for Income, abs(amount) for the other categories, in hundredths
NormalizedAmount(category, amount) ==
    IF category = "Income" THEN 0 - amount.cents ELSE amount.cents

\* what one mapping adds: nothing when it is unmapped or without category, when no
\* amount is extracted or when the amount is zero
Contribution(mapping, extracted) ==
    IF \/ ~mapping.mapped
       \/ ~Truthy(mapping.category)
       \/ ~extracted.amount.ok
       \/ extracted.amount.cents = 0
    THEN <<>>
    ELSE <<[category |-> mapping.category, month |-> MonthKey(extracted.date),
            amount |-> NormalizedAmount(mapping.category, extracted.amount)]>>

RECURSIVE Contributions(_)
Contributions(all_mappings) ==
    IF all_mappings = <<>> THEN <<>>
    ELSE Contribution(Head(all_mappings), Extracted(Head(all_mappings).original_data))
         \o Contributions(Tail(all_mappings))

\* the stored mappings with those of the current file replaced by the progress list
WithCurrentProgress(all_mappings, current_progress, current_filename) ==
    IF Truthy(current_filename)
    THEN SelectSeq(all_mappings, LAMBDA m : m.source_file # current_filename)
         \o current_progress
    ELSE all_mappings

\* the sum of the amounts added under a category and a month
RECURSIVE TotalOf(_, _, _)
TotalOf(contributions, category, month) ==
    IF contributions = <<>> THEN 0
    ELSE (IF Head(contributions).category = category /\ Head(contributions).month = month
          THEN Head(contributions).amount ELSE 0)
         + TotalOf(Tail(contributions), category, month)

\* summary["categories"]: one total for each category and month that got an amount
Totals(contributions) ==
    {[category |-> contributions[k].category, month |-> contributions[k].month,
      total |-> TotalOf(contributions, contributions[k].category, contributions[k].month)] :
        k \in 1..Len(contributions)}

\* calculate_spending_summary on the two files
calculate_spending_summary(st, current_progress) ==
    Totals(Contributions(
        IF current_progress # <<>>
        THEN WithCurrentProgress(load_all_mappings(st), current_progress,
                                 CurrentFilename(current_progress))
        ELSE load_all_mappings(st)))

\* spending_summary once the store is written: the summary of what is stored now
SummaryResponse(st) ==
    /\ store' = st
    /\ resp' = [op |-> "spending-summary", status |-> 200,
                summary |-> calculate_spending_summary(st, progress)]
    /\ UNCHANGED <<progress, uploaded>>

SpendingSummary ==
    SummaryResponse(IF progress # <<>> THEN SaveCurrent(store, progress) ELSE store)

\* a suggestion that asks the LLM whatever the stored mappings hold
SuggestionFor_AlwaysLlm(matching_category, suggested_category) ==
    IF suggested_category = ""
    THEN [op |-> "suggest-category", status |-> 500, suggested_category |-> None,
          confidence |-> None, llm_called |-> TRUE]
    ELSE [op |-> "suggest-category", status |-> 200,
          suggested_category |-> suggested_category, confidence |-> "medium",
          llm_called |-> TRUE]

\* suggest_category from find_matching_category on: the stored category, or what
\* call_ollama gives ("" when it raises, answered with 500)
SuggestionFor(matching_category, suggested_category) ==
    IF Truthy(matching_category)
    THEN [op |-> "suggest-category", status |-> 200,
          suggested_category |-> matching_category, confidence |-> "high",
          llm_called |-> FALSE]
    ELSE IF suggested_category = ""
    THEN [op |-> "suggest-category", status |-> 500, suggested_category |-> None,
          confidence |-> None, llm_called |-> TRUE]
    ELSE [op |-> "suggest-category", status |-> 200,
          suggested_category |-> suggested_category, confidence |-> "medium",
          llm_called |-> TRUE]

\* suggest_category past the checks, k the position of the row
SuggestAt(k, suggested_category) ==
    IF k = 0 THEN Refused("suggest-category", 500)
    ELSE /\ resp' = SuggestionFor(
                        find_matching_category(store, progress[k].original_data),
                        suggested_category)
         /\ UNCHANGED <<progress, store, uploaded>>

\* suggest_category; suggested_category is what call_ollama gives if it is called
SuggestCategory(row_index, suggested_category) ==
    IF progress = <<>> THEN Refused("suggest-category", 404)
    ELSE IF row_index >= Len(progress) THEN Refused("suggest-category", 400)
    ELSE SuggestAt(ListIndex(Len(progress), row_index), suggested_category)

\* the store without the entry of filename
RECURSIVE WithoutFile(_, _)
WithoutFile(st, filename) ==
    IF st = <<>> THEN <<>>
    ELSE (IF Head(st)[1] = filename THEN <<>> ELSE <<Head(st)>>)
         \o WithoutFile(Tail(st), filename)

ResetMappings(filename) ==
    IF filename = "" THEN Refused("reset-mappings", 400)
    ELSE /\ store' = WithoutFile(store, filename)
         /\ progress' =
                IF progress # <<>> /\ CurrentFilename(progress) = filename
                THEN [k \in 1..Len(progress) |->
                         [progress[k] EXCEPT !.category = None, !.mapped = FALSE]]
                ELSE progress
         /\ resp' = [op |-> "reset-mappings", status |-> 200, filename |-> filename]
         /\ UNCHANGED uploaded

-----------------------------------------------------------------------------
(* The service *)

HarnessIdle == hin = [kind |-> "none"] /\ hout = [fn |-> "none"]

\* worker threads that run map_row at the same time
MaxCalls == 2

Threads == 1..MaxCalls

\* a thread that has not received its request
IdleCall ==
    [pc |-> "idle", row_index |-> 0, category |-> None, progress_data |-> <<>>,
     all_mappings |-> <<>>, status |-> 0, overlapped |-> FALSE]

NoCalls == [t \in Threads |-> IdleCall]

Init ==
    /\ progress = <<>>
    /\ store = <<>>
    /\ resp = [op |-> "none", status |-> 0]
    /\ uploaded = [filename |-> "", rows |-> <<>>, repeated |-> FALSE]
    /\ HarnessIdle
    /\ calls = NoCalls

DoUpload ==
    /\ \E filename \in FileNames, contents \in UploadContents : Upload(filename, contents)
    /\ UNCHANGED <<hin, hout, calls>>

DoMapRow ==
    /\ \E row_index \in RowIndexes, category \in Categories : MapRow(row_index, category)
    /\ UNCHANGED <<hin, hout, calls>>

DoAutoMapAll ==
    /\ \E llm \in [1..Len(progress) -> LlmOutcomes] : AutoMapAll(llm)
    /\ UNCHANGED <<hin, hout, calls>>

DoSpendingSummary ==
    /\ SpendingSummary
    /\ UNCHANGED <<hin, hout, calls>>

DoResetMappings ==
    /\ \E filename \in FileNames : ResetMappings(filename)
    /\ UNCHANGED <<hin, hout, calls>>

DoSuggestCategory ==
    /\ \E row_index \in RowIndexes, suggested_category \in LlmOutcomes :
           SuggestCategory(row_index, suggested_category)
    /\ UNCHANGED <<hin, hout, calls>>

Next ==
    \/ DoUpload
    \/ DoMapRow
    \/ DoAutoMapAll
    \/ DoSpendingSummary
    \/ DoResetMappings
    \/ DoSuggestCategory

Spec == Init /\ [][Next]_vars

\* the service with no reset-mappings request
NextNoReset ==
    \/ DoUpload
    \/ DoMapRow
    \/ DoAutoMapAll
    \/ DoSpendingSummary
    \/ DoSuggestCategory

SpecNoReset == Init /\ [][NextNoReset]_vars

-----------------------------------------------------------------------------
-----------------------------------------------------------------------------
\* the service after an upload of b.csv, whose row is left unmapped or was mapped
FilesInit ==
    /\ \E category \in Categories \cup {None} :
           progress = <<RowMapping(0, RowB, category, category # None, "b.csv")>>
    /\ store = <<<<"b.csv", progress>>>>
    /\ resp = IF progress[1].mapped THEN [op |-> "map", status |-> 200]
              ELSE [op |-> "upload", status |-> 200, total_rows |-> 1,
                    skipped_count |-> 0]
    /\ uploaded = [filename |-> "b.csv", rows |-> <<RowB>>, repeated |-> FALSE]
    /\ HarnessIdle
    /\ calls = NoCalls

SpecFiles == FilesInit /\ [][Next]_vars

-----------------------------------------------------------------------------

(* main.py: map_row on several worker threads *)

\* map_row is a plain "def" endpoint, which the framework runs on a thread pool: two
\* requests run their reads and writes of the two files in any interleaving.  A call
\* goes through load_progress and the checks, save_progress, the read of the mappings
\* file in save_mappings_for_file, and its write.

\* a map that leaves the row as it was
Mapped_Nothing(progress_data, k, category) == progress_data

\* progress_data[row_index]["category"] = category; ...["mapped"] = True
Mapped(progress_data, k, category) ==
    [progress_data EXCEPT ![k].category = category, ![k].mapped = TRUE]

\* a call is running: the request is received and not answered
InFlight(call) == call.pc \notin {"idle", "done"}

\* the call of thread t becomes call; the calls running at that time have overlapped it
Received(t, call) ==
    [u \in Threads |->
        IF u = t THEN [call EXCEPT !.overlapped = \E v \in Threads : InFlight(calls[v])]
        ELSE IF InFlight(calls[u]) THEN [calls[u] EXCEPT !.overlapped = TRUE]
        ELSE calls[u]]

\* the call answered with an error before anything is written
Raised(row_index, category, status) ==
    [IdleCall EXCEPT !.pc = "done", !.row_index = row_index, !.category = category,
                     !.status = status]

\* the call past the checks, holding its copy of the progress list with the row mapped
Loaded(row_index, category, progress_data, k) ==
    IF k = 0 THEN Raised(row_index, category, 500)
    ELSE [IdleCall EXCEPT !.pc = "save_progress", !.row_index = row_index,
                          !.category = category,
                          !.progress_data = Mapped(progress_data, k, category)]

\* map_row up to the update of its own progress_data
MapCallChecked(row_index, category, progress_data) ==
    IF progress_data = <<>> THEN Raised(row_index, category, 404)
    ELSE IF row_index >= Len(progress_data) THEN Raised(row_index, category, 400)
    ELSE Loaded(row_index, category, progress_data,
                ListIndex(Len(progress_data), row_index))

\* progress_data = load_progress(), the checks and the update of the local list
MapCallLoad(t) ==
    /\ calls[t].pc = "idle"
    /\ \E row_index \in RowIndexes, category \in Categories :
           calls' = Received(t, MapCallChecked(row_index, category, progress))
    /\ UNCHANGED <<progress, store, resp, uploaded, hin, hout>>

\* save_progress(progress_data)
MapCallSaveProgress(t) ==
    /\ calls[t].pc = "save_progress"
    /\ progress' = calls[t].progress_data
    /\ calls' = [calls EXCEPT ![t].pc =
                    IF Truthy(CurrentFilename(calls[t].progress_data))
                    THEN "load_mappings" ELSE "respond"]
    /\ UNCHANGED <<store, resp, uploaded, hin, hout>>

\* save_mappings_for_file: all_mappings = json.load(f)
MapCallLoadMappings(t) ==
    /\ calls[t].pc = "load_mappings"
    /\ calls' = [calls EXCEPT ![t].pc = "write_mappings", ![t].all_mappings = store]
    /\ UNCHANGED <<progress, store, resp, uploaded, hin, hout>>

\* save_mappings_for_file: all_mappings[filename] = rows; json.dump(all_mappings, f)
MapCallWriteMappings(t) ==
    /\ calls[t].pc = "write_mappings"
    /\ store' = save_mappings_for_file(calls[t].all_mappings,
                                       CurrentFilename(calls[t].progress_data),
                                       calls[t].progress_data)
    /\ calls' = [calls EXCEPT ![t].pc = "respond"]
    /\ UNCHANGED <<progress, resp, uploaded, hin, hout>>

\* return {"message": "Row mapped successfully", ...}
MapCallRespond(t) ==
    /\ calls[t].pc = "respond"
    /\ calls' = [calls EXCEPT ![t].pc = "done", ![t].status = 200]
    /\ resp' = [op |-> "map", status |-> 200]
    /\ UNCHANGED <<progress, store, uploaded, hin, hout>>

\* the two files after an accepted upload of a.csv, which the map requests follow
ThreadInit ==
    /\ \E data_rows \in SeqsUpTo({RowA, RowB}, MaxRows) \ {<<>>} :
           /\ progress = ReadRows(Headers, data_rows, "a.csv", <<>>)
           /\ store = merge_mappings_for_file(<<>>, "a.csv", progress, <<>>)
           /\ resp = [op |-> "upload", status |-> 200, total_rows |-> Len(progress),
                      skipped_count |-> 0]
           /\ uploaded = [filename |-> "a.csv", rows |-> data_rows, repeated |-> FALSE]
    /\ HarnessIdle
    /\ calls = NoCalls

DoMapCallLoad == \E t \in Threads : MapCallLoad(t)

DoMapCallSaveProgress == \E t \in Threads : MapCallSaveProgress(t)

DoMapCallLoadMappings == \E t \in Threads : MapCallLoadMappings(t)

DoMapCallWriteMappings == \E t \in Threads : MapCallWriteMappings(t)

DoMapCallRespond == \E t \in Threads : MapCallRespond(t)

ThreadNext ==
    \/ DoMapCallLoad
    \/ DoMapCallSaveProgress
    \/ DoMapCallLoadMappings
    \/ DoMapCallWriteMappings
    \/ DoMapCallRespond

SpecThreads == ThreadInit /\ [][ThreadNext]_vars

(* Persistence of categorizations across requests *)

\* the store holds row_data under filename as a mapped row
HeldMapped(st, filename, row_data) ==
    \E j \in 1..Len(load_mappings_for_file(st, filename)) :
        /\ load_mappings_for_file(st, filename)[j].original_data = row_data
        /\ load_mappings_for_file(st, filename)[j].mapped

\* every row the store holds as mapped with a category is held as mapped in after
KeepsMappedRows(before, after) ==
    \A filename \in StoreFiles(before) :
        \A i \in 1..Len(load_mappings_for_file(before, filename)) :
            LET row == load_mappings_for_file(before, filename)[i]
            IN  (row.mapped /\ Truthy(row.category))
                    => HeldMapped(after, filename, row.original_data)

\* C1: with no reset-mappings request, a row that the mapping store holds under a
\* file as mapped with a category is still held under that file as mapped after a
\* map request is served (the case the claim spells out: upload, map, upload other
\* rows under the same name, map one of them).
C1_MapKeepsMappedRows ==
    [][(resp'.op = "map" /\ resp'.status = 200) => KeepsMappedRows(store, store')]_vars

\* the rows of progress_data carry the same mapped flags and categories in both lists
SameCategorizations(before, after) ==
    /\ Len(before) = Len(after)
    /\ \A i \in 1..Len(before) :
           /\ after[i].original_data = before[i].original_data
           /\ after[i].mapped = before[i].mapped
           /\ after[i].category = before[i].category

\* this step is an accepted upload of the file that was uploaded last, unchanged
ReuploadStep ==
    /\ resp'.op = "upload"
    /\ resp'.status = 200
    /\ uploaded'.repeated
    /\ <<progress, store, resp, uploaded>> # <<progress', store', resp', uploaded'>>

\* no two rows of the progress list have the same fingerprint
DistinctFingerprints(rows) ==
    \A i, j \in 1..Len(rows) :
        i # j => Fingerprint(rows[i].original_data) # Fingerprint(rows[j].original_data)

\* C2 as stated: uploading the last file again, unchanged, gives every row the mapped
\* flag and the category it had before the upload, for every row set.
C2_ReuploadRestoresAll ==
    [][ReuploadStep => SameCategorizations(progress, progress')]_vars

\* C2, amended: uploading the last file again, unchanged, gives every row the mapped
\* flag and the category it had before the upload, when no two rows of the file
\* have the same date, amount and description (the same fingerprint).
C2_ReuploadRestoresDistinct ==
    [][(ReuploadStep /\ DistinctFingerprints(progress))
           => SameCategorizations(progress, progress')]_vars

\* a file of two different rows, one mapped and one not, has just been uploaded again
C2_Witness ==
    /\ resp.op = "upload"
    /\ resp.status = 200
    /\ uploaded.repeated
    /\ Len(progress) = 2
    /\ DistinctFingerprints(progress)
    /\ progress[1].mapped
    /\ progress[1].category = "Groceries"
    /\ ~progress[2].mapped

-----------------------------------------------------------------------------
-----------------------------------------------------------------------------
(* Reset *)

\* the store holds row_data under filename as an unmapped row without category
HeldCleared(st, filename, row_data) ==
    \E j \in 1..Len(load_mappings_for_file(st, filename)) :
        /\ load_mappings_for_file(st, filename)[j].original_data = row_data
        /\ load_mappings_for_file(st, filename)[j].category = None
        /\ ~load_mappings_for_file(st, filename)[j].mapped

\* every row held under filename before is held under it, cleared, after
KeepsRowsCleared(before, after, filename) ==
    \A i \in 1..Len(load_mappings_for_file(before, filename)) :
        HeldCleared(after, filename, load_mappings_for_file(before, filename)[i].original_data)

\* C14: after reset-mappings for a file, every row the mapping store held under
\* the file is still held under it with the same original_data, category none and
\* mapped false.
C14_ResetKeepsRows ==
    [][(resp'.op = "reset-mappings" /\ resp'.status = 200)
           => KeepsRowsCleared(store, store', resp'.filename)]_vars

-----------------------------------------------------------------------------
(* Row lifecycle *)

\* every row of the list is mapped exactly when it has a category
MappedIffCategory(rows) ==
    \A k \in 1..Len(rows) : rows[k].mapped <=> rows[k].category # None

\* this step is an accepted upload of a file the store holds no row of
FirstUploadStep ==
    /\ resp'.op = "upload"
    /\ resp'.status = 200
    /\ load_mappings_for_file(store, uploaded'.filename) = <<>>
    /\ <<progress, store, resp, uploaded>> # <<progress', store', resp', uploaded'>>

\* C15: in every reachable state each row of the progress list and of the mapping
\* store is mapped if and only if its category is not none, and the rows created
\* by the first upload of a file have category none and mapped false.
C15_RowLifecycle ==
    /\ [](/\ MappedIffCategory(progress)
          /\ \A filename \in StoreFiles(store) :
                 MappedIffCategory(load_mappings_for_file(store, filename)))
    /\ [][FirstUploadStep
              => \A k \in 1..Len(progress') :
                     progress'[k].category = None /\ ~progress'[k].mapped]_vars

\* after a map request one row of the file has a category and the other has none
C15_Witness ==
    /\ resp.op = "map"
    /\ resp.status = 200
    /\ Len(progress) = 2
    /\ progress[1].mapped /\ progress[1].category = "Groceries"
    /\ ~progress[2].mapped /\ progress[2].category = None
    /\ load_mappings_for_file(store, "a.csv") = progress

-----------------------------------------------------------------------------
(* Map requests *)

\* C16: a map request whose row_index is not in 0..n-1, n >= 1 the number of
\* progress rows, is refused with 400, a map request with no file uploaded is
\* refused with 404, and both leave the progress list and the mapping store unchanged.
C16_InvalidIndexRefused ==
    [][\A row_index \in RowIndexes, category \in Categories :
           MapRow(row_index, category)
               => /\ (progress # <<>> /\ row_index \notin 0..(Len(progress) - 1))
                         => /\ resp'.status = 400
                            /\ UNCHANGED <<progress, store>>
                  /\ progress = <<>>
                         => /\ resp'.status = 404
                            /\ UNCHANGED <<progress, store>>]_vars

\* rows is before with category and mapped = true set on row k and nothing else changed
MappedOnly(before, rows, k, category) ==
    /\ Len(rows) = Len(before)
    /\ rows[k] = [before[k] EXCEPT !.category = category, !.mapped = TRUE]
    /\ \A j \in 1..Len(before) : j # k => rows[j] = before[j]

\* what a progress read returns is the list, with the count of its mapped rows
ReadBack(rows, response) ==
    /\ response.rows = rows
    /\ response.mapped_count = Cardinality({k \in 1..Len(rows) : rows[k].mapped})

\* C17: a successful map(row_index = i, category = c) sets category = c and
\* mapped = true on row i of the progress list and changes no other row and no
\* other field; a following progress read returns the changed list and a
\* mapped_count equal to the number of its rows with mapped = true.
C17_MapChangesOneRow ==
    [][\A row_index \in 0..(MaxRows - 1), category \in Categories :
           (MapRow(row_index, category) /\ resp'.status = 200)
               => /\ MappedOnly(progress, progress', row_index + 1, category)
                  /\ ReadBack(progress', get_progress(progress'))]_vars

\* the second of two rows has just been mapped, the first has not
C17_Witness ==
    /\ resp.op = "map"
    /\ resp.status = 200
    /\ Len(progress) = 2
    /\ ~progress[1].mapped
    /\ progress[2].mapped /\ progress[2].category = "Income"
    /\ get_progress(progress).mapped_count = 1

-----------------------------------------------------------------------------
(* Incomplete rows *)

\* the rows of the file for which is_row_valid is true, in file order
RECURSIVE ValidRowsOf(_, _)
ValidRowsOf(fieldnames, data_rows) ==
    IF data_rows = <<>> THEN <<>>
    ELSE (IF IsRowValid(fieldnames, Head(data_rows)) THEN <<Head(data_rows)>> ELSE <<>>)
         \o ValidRowsOf(fieldnames, Tail(data_rows))

\* the progress list holds valid_rows in order, numbered 0, 1, 2, ...
HoldsInOrder(rows, valid_rows) ==
    /\ Len(rows) = Len(valid_rows)
    /\ \A k \in 1..Len(rows) :
           rows[k].original_data = valid_rows[k] /\ rows[k].row_index = k - 1

-----------------------------------------------------------------------------
(* Spending summary *)

\* the sum, over the rows of the list that are mapped, have a category and a
\* parsable amount, of |amount|, negated for Income, under a category and a month
RECURSIVE StoredTotal(_, _, _)
StoredTotal(rows, category, month) ==
    IF rows = <<>> THEN 0
    ELSE (IF /\ Head(rows).mapped
             /\ Head(rows).category = category
             /\ Extracted(Head(rows).original_data).amount.ok
             /\ MonthKey(Extracted(Head(rows).original_data).date) = month
          THEN NormalizedAmount(category, Extracted(Head(rows).original_data).amount)
          ELSE 0)
         + StoredTotal(Tail(rows), category, month)

\* the total the summary gives for a category and a month, 0 when it gives none
SummaryTotal(summary, category, month) ==
    IF \E e \in summary : e.category = category /\ e.month = month
    THEN (CHOOSE e \in summary : e.category = category /\ e.month = month).total
    ELSE 0

\* C20: every row the mapping store holds with mapped = true, a category and a
\* parsable non-zero amount adds |amount| (negated for Income) to the total of its
\* category and month in the spending summary, rows of the current file that the
\* progress list lacks included.
C20_SummaryOfAllStoredRows ==
    [][resp'.op = "spending-summary"
           => \A category \in Categories, month \in {"2024-01", "Unknown"} :
                  SummaryTotal(resp'.summary, category, month)
                      = StoredTotal(load_all_mappings(store), category, month)]_vars

-----------------------------------------------------------------------------
(* Rejected uploads *)

\* the upload is one the service rejects: the name does not end in .csv, the file is
\* empty or has no header, or it has data rows and none of them is valid
Rejected(filename, contents) ==
    \/ ~EndsWithCsv(filename)
    \/ contents.empty
    \/ contents.fieldnames = <<>>
    \/ /\ contents.rows # <<>>
       /\ ValidRowsOf(contents.fieldnames, contents.rows) = <<>>

\* C26: a rejected upload (name not ending in .csv, empty file, no header, or every
\* data row invalid) is answered with 400 and leaves the progress list and the
\* mapping store as they were; an upload answered with 400 has changed nothing.
C26_RejectedUploadChangesNothing ==
    [][/\ \A filename \in FileNames, contents \in UploadContents :
              (Upload(filename, contents) /\ Rejected(filename, contents))
                  => /\ resp'.status = 400
                     /\ UNCHANGED <<progress, store>>
       /\ (resp'.op = "upload" /\ resp'.status = 400) => UNCHANGED <<progress, store>>]_vars

\* an upload was rejected while the two files held a mapped row
C26_Witness ==
    /\ resp = [op |-> "upload", status |-> 400]
    /\ progress # <<>>
    /\ progress[1].mapped
    /\ load_mappings_for_file(store, "a.csv") = progress

-----------------------------------------------------------------------------
(* Suggestions *)

\* C27: suggest-category asks the stored mappings first: the LLM is called only when
\* find_matching_category returns none for the row; when a stored match exists the
\* answer is that category with confidence "high" and the LLM is not called; the
\* progress list and the mapping store are never changed.
C27_SuggestConsultsHistoryFirst ==
    [][resp'.op = "suggest-category"
           => /\ UNCHANGED <<progress, store>>
              /\ \A row_index \in RowIndexes, suggested_category \in LlmOutcomes :
                     (/\ SuggestCategory(row_index, suggested_category)
                      /\ progress # <<>>
                      /\ row_index < Len(progress)
                      /\ ListIndex(Len(progress), row_index) # 0)
                         => IF find_matching_category(store,
                                    progress[ListIndex(Len(progress), row_index)]
                                        .original_data) = None
                            THEN resp'.llm_called
                            ELSE /\ ~resp'.llm_called
                                 /\ resp'.status = 200
                                 /\ resp'.confidence = "high"
                                 /\ resp'.suggested_category =
                                        find_matching_category(store,
                                            progress[ListIndex(Len(progress), row_index)]
                                                .original_data)]_vars

\* a suggestion was answered from the stored mappings, without the LLM
C27_Witness ==
    /\ resp.op = "suggest-category"
    /\ resp.status = 200
    /\ resp.confidence = "high"
    /\ ~resp.llm_called
    /\ resp.suggested_category = "Income"
    /\ \E k \in 1..Len(progress) : progress[k].category = "Income"

-----------------------------------------------------------------------------
(* Auto-mapping *)

\* how often k occurs in a list of row positions
Occurrences(list, k) == Cardinality({i \in 1..Len(list) : list[i] = k})

\* C28: in auto-map-all a failed LLM call records one error, leaves its row unmapped
\* and does not stop the loop: on return every row that was unmapped is either mapped
\* or has exactly one error entry, mapped_count + number of errors = total_unmapped,
\* and a later row with the fingerprint of a row mapped earlier in the run gets the
\* same category without an LLM call.
C28_AutoMapIsolatesFailures ==
    [][(resp'.op = "auto-map-all" /\ resp'.status = 200)
           => /\ resp'.total_unmapped = Len(progress) - MappedCount(progress)
              /\ resp'.mapped_count + Len(resp'.errors) = resp'.total_unmapped
              /\ \A k \in 1..Len(progress) :
                     IF progress[k].mapped
                     THEN progress'[k] = progress[k] /\ Occurrences(resp'.errors, k) = 0
                     ELSE \/ progress'[k].mapped /\ Occurrences(resp'.errors, k) = 0
                          \/ /\ progress'[k] = progress[k]
                             /\ Occurrences(resp'.errors, k) = 1
                             /\ Occurrences(resp'.llm_calls, k) = 1
              /\ \A i \in 1..Len(progress), j \in 1..Len(progress) :
                     (/\ i < j
                      /\ ~progress[i].mapped /\ ~progress[j].mapped
                      /\ progress'[i].mapped
                      /\ Fingerprint(progress[i].original_data)
                             = Fingerprint(progress[j].original_data))
                         => /\ progress'[j].mapped
                            /\ progress'[j].category = progress'[i].category
                            /\ Occurrences(resp'.llm_calls, j) = 0]_vars

\* the LLM call failed for the first row and the second row was mapped all the same
C28_Witness ==
    /\ resp.op = "auto-map-all"
    /\ resp.status = 200
    /\ resp.errors = <<1>>
    /\ resp.mapped_count = 1
    /\ resp.total_unmapped = 2
    /\ ~progress[1].mapped
    /\ progress[2].mapped

-----------------------------------------------------------------------------
(* Other files of the store *)

\* the step leaves the store entry of every file other than filename as it was
OthersKept(filename) ==
    \A other \in (StoreFiles(store) \cup StoreFiles(store')) \ {filename} :
        load_mappings_for_file(store', other) = load_mappings_for_file(store, other)

\* C29: an upload, map, auto-map-all, spending-summary or reset-mappings operation
\* whose current or target file is f leaves the mapping-store entry of every other
\* file as it was.
C29_OtherFilesUntouched ==
    [][/\ resp'.op = "upload"
              => IF resp'.status = 200 THEN OthersKept(uploaded'.filename)
                 ELSE store' = store
       /\ resp'.op = "reset-mappings"
              => IF resp'.status = 200 THEN OthersKept(resp'.filename)
                 ELSE store' = store
       /\ resp'.op \in {"map", "auto-map-all", "spending-summary"}
              => IF progress = <<>> THEN store' = store
                 ELSE OthersKept(CurrentFilename(progress))]_vars

\* a row of a.csv was mapped while the store held the mapped row of b.csv
C29_Witness ==
    /\ resp = [op |-> "map", status |-> 200]
    /\ progress # <<>>
    /\ CurrentFilename(progress) = "a.csv"
    /\ \E k \in 1..Len(progress) : progress[k].mapped
    /\ load_mappings_for_file(store, "a.csv") = progress
    /\ Len(load_mappings_for_file(store, "b.csv")) = 1
    /\ load_mappings_for_file(store, "b.csv")[1].mapped

(* Function-level runs: one function of the backend applied to one argument list *)

\* rows of the stored list handed to merge_mappings_for_file
MaxMergeRows == 2

\* headers handed to CSVRowValidator
MaxHeaders == 3

MergeFile == "a.csv"

\* what a stored row can be: one of three transactions (two of them with the same
\* fingerprint), unmapped or mapped to a category
MergeData == {RowA, RowAAgain, RowB}

MergeRowStates ==
    {[category |-> None, mapped |-> FALSE]}
    \cup {[category |-> category, mapped |-> TRUE] : category \in Categories}

ExistingLists ==
    UNION {{[i \in 1..k |->
               RowMapping(i - 1, data[i], rowstate[i].category, rowstate[i].mapped,
                          MergeFile)] :
               data \in [1..k -> MergeData], rowstate \in [1..k -> MergeRowStates]} :
           k \in 0..MaxMergeRows}

\* the sub-list of rows at the positions of mask, in order
RECURSIVE SubList(_, _, _)
SubList(rows, mask, i) ==
    IF i > Len(rows) THEN <<>>
    ELSE (IF i \in mask THEN <<rows[i]>> ELSE <<>>) \o SubList(rows, mask, i + 1)

MergeInputs == {[kind |-> "merge", existing_rows |-> rows] : rows \in ExistingLists}

\* rows whose columns the runs reorder
TwoDates ==
    <<<<"Date", "2024-01-01">>, <<"Post Date", "2024-01-05">>,
      <<"Description", "Grocery Store">>, <<"Amount", "50.00">>>>

TwoDescriptions ==
    <<<<"Date", "2024-01-01">>, <<"Description", "Grocery Store">>,
      <<"Memo", "weekly shop">>, <<"Amount", "50.00">>>>

DebitCredit ==
    <<<<"Date", "2024-01-01">>, <<"Description", "Grocery Store">>,
      <<"Debit", "50.00">>, <<"Credit", "20.00">>>>

OneDescription ==
    <<<<"Date", "2024-01-01">>, <<"Description", "Grocery Store">>,
      <<"Memo", "">>, <<"Amount", "50.00">>>>

ReorderedRows == {RowA, RowB, TwoDates, TwoDescriptions, DebitCredit, OneDescription}

Permuted(row, p) == [i \in 1..Len(row) |-> row[p[i]]]

\* rows that differ in how the date and the amount are written and in the description
DescribedRows ==
    {CsvRow(date, description, amount) :
        date \in {"2024-01-01", "01/01/2024"},
        description \in {"Grocery Store", "GROCERY STORE", " Grocery Store ",
                         "Gas Station"},
        amount \in {"50.00", "$50.00"}}

\* rows from which no date, no amount and no description can be extracted
DegenerateRows ==
    {<<>>, <<<<"Notes", "">>>>, <<<<"Memo", "">>>>,
     CsvRow("", "", ""), CsvRow("x", "", ""), CsvRow("y", "", "")}

RowPairInputs ==
    {[kind |-> "rows", row1 |-> row, row2 |-> Permuted(row, p)] :
        row \in {RowA, RowB}, p \in Permutations(1..3)}
    \cup {[kind |-> "rows", row1 |-> row, row2 |-> Permuted(row, p)] :
             row \in ReorderedRows \ {RowA, RowB}, p \in Permutations(1..4)}
    \cup {[kind |-> "rows", row1 |-> row1, row2 |-> row2] :
             row1 \in DescribedRows, row2 \in DescribedRows}
    \cup {[kind |-> "rows", row1 |-> row1, row2 |-> row2] :
             row1 \in DegenerateRows, row2 \in DegenerateRows}

HeaderNames ==
    {"Date", "Value Date", "Post Date", "Amount", "Debit", "Description", "Memo", ""}

HeaderInputs ==
    {[kind |-> "headers", headers |-> headers] :
        headers \in SeqsUpTo(HeaderNames, MaxHeaders)}

\* rows to validate: every combination of a date, a description and an amount cell
\* that is good, empty, blank or unparsable, a row without amount column, and {}
ValidatedRows ==
    {CsvRow(date, description, amount) :
        date \in {"2024-01-01", "", " ", "soon"},
        description \in {"Grocery Store", "", " "},
        amount \in {"50.00", "(30.00)", "", " ", "n/a"}}
    \cup {<<>>,
          <<<<"Date", "2024-01-01">>, <<"Description", "Store 5">>>>,
          <<<<"Date", "2024-01-01">>, <<"Description", "Store">>>>,
          <<<<"Value Date", "01/02/2024">>, <<"Description", "Store">>>>,
          <<<<"Value Date", "">>, <<"Description", "Store">>, <<"Amount", "50.00">>>>,
          <<<<"Date", "2024-01-01">>, <<"Amount", "50.00">>>>}

\* validated with the validator of the row's own header, of the usual header, of none
RowInputs ==
    {[kind |-> "row", headers |-> headers, row |-> row] :
        row \in ValidatedRows, headers \in {Headers, <<>>}}
    \cup {[kind |-> "row", headers |-> Keys(row), row |-> row] : row \in ValidatedRows}

CellInputs ==
    {[kind |-> "cell", key |-> key, value |-> value] :
        key \in {"Amount", "Credit", "Debit", "CREDIT", "Credit/Debit", "Charge"},
        value \in {"50.00", "-50.00", "(30.00)", "(-30.00)", "$1,234.56", "0", "-0",
                   " 12.5 ", "", "n/a", "1.2.3", "-"}}

\* rows of a statement with a debit and a credit column; a row may lack either cell
DebitCreditHeaders == <<"Date", "Description", "Debit", "Credit">>

AmountCells == {"", " ", "100.00", "-100.00", "(100.00)", "25.50", "n/a"}

DebitCreditRows ==
    {<<<<"Date", "2024-01-01">>, <<"Description", "Store">>,
       <<"Debit", debit>>, <<"Credit", credit>>>> :
        debit \in AmountCells, credit \in AmountCells}
    \cup {<<<<"Date", "2024-01-01">>, <<"Description", "Store">>, <<key, cell>>>> :
             key \in {"Debit", "Credit"}, cell \in AmountCells}

AmountRowInputs ==
    {[kind |-> "amount_row", headers |-> DebitCreditHeaders, row |-> row] :
        row \in DebitCreditRows}

\* the cell a/b/2024
SlashDate(a, b) == Pad(a, 2) \o "/" \o Pad(b, 2) \o "/2024"

\* rows of one date cell a/b/2024, and rows of two date columns, in both orders,
\* whose cells are ISO, US, day-first, empty or no date
DateCellTexts == {"2024-01-01", "01/05/2024", "13/02/2024", "", "soon"}

DateRows ==
    {<<<<"Date", SlashDate(a, b)>>>> : a \in {1, 5, 12, 13, 28, 30, 31}, b \in {1, 2, 12, 13}}
    \cup {<<<<key1, cell1>>, <<key2, cell2>>>> :
             key1 \in {"Date"}, key2 \in {"Post Date"},
             cell1 \in DateCellTexts, cell2 \in DateCellTexts}
    \cup {<<<<key1, cell1>>, <<key2, cell2>>>> :
             key1 \in {"Post Date"}, key2 \in {"Date"},
             cell1 \in DateCellTexts, cell2 \in DateCellTexts}

DateRowInputs == {[kind |-> "date_row", row |-> row] : row \in DateRows}

\* amount texts sign? symbol? digits (',' digits)* ('.' digits)?, bare or in
\* parentheses: the digits with what they denote in hundredths
AmountBodies ==
    {[text |-> "1,234.56", cents |-> 123456], [text |-> "50.00", cents |-> 5000],
     [text |-> "10", cents |-> 1000], [text |-> "1,000,000", cents |-> 100000000],
     [text |-> "0.5", cents |-> 50]}

AmountText(sign, symbol, text, wrapped) ==
    IF wrapped THEN "(" \o sign \o symbol \o text \o ")" ELSE sign \o symbol \o text

\* cells without a digit
NoDigitTexts == {"-", ".", "-.", "$", "--", "n/a", "(-)", "€"}

GrammarCellInputs ==
    {[kind |-> "cell", key |-> "Amount",
      value |-> AmountText(sign, symbol, body.text, wrapped)] :
        sign \in {"", "-"}, symbol \in {"", "$", "£", "€"}, body \in AmountBodies,
        wrapped \in BOOLEAN}
    \cup {[kind |-> "cell", key |-> "Amount", value |-> text] : text \in NoDigitTexts}

\* stores of two files for find_matching_category: the rows are unmapped, mapped to
\* a category, or mapped by a map request whose category is the empty string
FindRowStates == MergeRowStates \cup {[category |-> "", mapped |-> TRUE]}

FindLists(filename, n) ==
    UNION {{[i \in 1..k |->
               RowMapping(i - 1, data[i], rowstate[i].category, rowstate[i].mapped,
                          filename)] :
               data \in [1..k -> {RowA, RowB}], rowstate \in [1..k -> FindRowStates]} :
           k \in 0..n}

FindStores ==
    {<<<<"a.csv", rows1>>, <<"b.csv", rows2>>>> :
        rows1 \in FindLists("a.csv", MaxMergeRows), rows2 \in FindLists("b.csv", 1)}

FindInputs == {[kind |-> "find", row |-> row] : row \in {RowA, RowB}}

\* str(list) of the surplus cells of a line
RECURSIVE ListStr(_)
ListStr(cells) ==
    IF cells = <<>> THEN ""
    ELSE "'" \o Head(cells) \o "'" \o (IF Len(cells) > 1 THEN ", " ELSE "")
         \o ListStr(Tail(cells))

\* the row csv.DictReader makes of the cells of a line: a missing cell is None, the
\* surplus cells are a list under the key None
DictRow(fieldnames, cells) ==
    [k \in 1..Len(fieldnames) |->
        <<fieldnames[k], IF k <= Len(cells) THEN cells[k] ELSE None>>]
    \o (IF Len(cells) > Len(fieldnames)
        THEN <<<<None, "[" \o ListStr(SubSeq(cells, Len(fieldnames) + 1, Len(cells))) \o "]">>>>
        ELSE <<>>)

\* lines of one to four cells under the three-column header: good, empty and
\* unparsable dates and amounts
ParsedLines ==
    {<<date>> : date \in {"2024-01-01", "soon"}}
    \cup {<<date, description>> :
             date \in {"2024-01-01", "soon"}, description \in {"Store", ""}}
    \cup {<<date, description, amount>> :
             date \in {"2024-01-01", "soon"}, description \in {"Store", ""},
             amount \in {"50.00", "n/a", ""}}
    \cup {<<date, description, amount, "memo">> :
             date \in {"2024-01-01", "soon"}, description \in {"Store", ""},
             amount \in {"50.00", "n/a", ""}}

ParsedRowInputs ==
    {[kind |-> "parsed_row", headers |-> Headers, row |-> DictRow(Headers, cells)] :
        cells \in ParsedLines}

\* rows with a date, an amount-keyword column or none, and a column "Total" without
\* keyword, read by a validator of no header, of the date header, of the row's keys
FallbackRows ==
    {<<<<"Date", "2024-01-01">>, <<"Amount", amount>>, <<"Total", total>>>> :
        amount \in {"", "n/a", "50.00"}, total \in {"", "n/a", "75.00"}}
    \cup {<<<<"Date", "2024-01-01">>, <<"Total", total>>>> : total \in {"", "n/a", "75.00"}}
    \cup {<<<<"Date", "2024-01-01">>, <<"Amount", amount>>, <<"Charge", charge>>>> :
             amount \in {"", "n/a", "50.00"}, charge \in {"", "75.00"}}

FallbackRowInputs ==
    {[kind |-> "fallback_row", headers |-> headers, row |-> row] :
        row \in FallbackRows, headers \in {<<>>, <<"Date">>, <<"Date", "Amount">>}}

\* new_rows and existing_rows chosen apart: rows of two transactions and of the two
\* rows without fingerprint fields, the existing ones unmapped or mapped
MergeListData == {RowA, RowAAgain, RowB, RowEmpty, RowUnreadable}

MergeLists(rowstates) ==
    UNION {{[i \in 1..k |->
               RowMapping(i - 1, data[i], rowstate[i].category, rowstate[i].mapped,
                          MergeFile)] :
               data \in [1..k -> MergeListData], rowstate \in [1..k -> rowstates]} :
           k \in 0..MaxMergeRows}

MergeListInputs ==
    {[kind |-> "merge_lists", new_rows |-> new_rows, existing_rows |-> existing_rows] :
        new_rows \in MergeLists({[category |-> None, mapped |-> FALSE]}),
        existing_rows \in MergeLists({[category |-> None, mapped |-> FALSE],
                                      [category |-> "Groceries", mapped |-> TRUE]})}

\* the row of two descriptions with the memo before the description
MemoFirst ==
    <<<<"Date", "2024-01-01">>, <<"Memo", "weekly shop">>,
      <<"Description", "Grocery Store">>, <<"Amount", "50.00">>>>

\* rows of one transaction exported with and without a memo column, other rows
TripleRows == {RowA, RowAAgain, RowB, TwoDescriptions, MemoFirst, RowEmpty}

RowTripleInputs ==
    {[kind |-> "row_triple", row1 |-> row1, row2 |-> row2, row3 |-> row3] :
        row1 \in TripleRows, row2 \in TripleRows, row3 \in TripleRows}

\* rows_match on the rows of the triples, computed once
TripleMatchTable ==
    [pair \in {<<row1, row2>> : row1 \in TripleRows, row2 \in TripleRows} |->
        rows_match(pair[1], pair[2])]

\* rows_match(row1, row2)
TripleMatch(row1, row2) == TripleMatchTable[<<row1, row2>>]

FunctionInit ==
    /\ progress = <<>>
    /\ resp = [op |-> "none", status |-> 0]
    /\ uploaded = [filename |-> "", rows |-> <<>>, repeated |-> FALSE]
    /\ hout = [fn |-> "none"]
    /\ calls = NoCalls
    /\ \/ /\ hin \in MergeInputs \cup MergeListInputs
          /\ store = IF hin.existing_rows = <<>> THEN <<>>
                     ELSE save_mappings_for_file(<<>>, MergeFile, hin.existing_rows)
       \/ /\ hin \in FindInputs
          /\ store \in FindStores
       \/ /\ hin \in RowPairInputs \cup HeaderInputs \cup RowInputs \cup CellInputs
                     \cup AmountRowInputs \cup DateRowInputs \cup GrammarCellInputs
                     \cup ParsedRowInputs \cup FallbackRowInputs \cup RowTripleInputs
          /\ store = <<>>

\* merge_mappings_for_file(filename, new_rows, existing_rows), new_rows a sub-list of
\* the stored rows
Merge ==
    /\ hin.kind = "merge" /\ hout.fn = "none"
    /\ \E mask \in SUBSET (1..Len(hin.existing_rows)) :
          LET new_rows == SubList(hin.existing_rows, mask, 1)
          IN  /\ store' = merge_mappings_for_file(store, MergeFile, new_rows,
                              load_mappings_for_file(store, MergeFile))
              /\ hout' = [fn |-> "merge", new_rows |-> new_rows]
    /\ UNCHANGED <<progress, resp, uploaded, hin, calls>>

FingerprintRows ==
    /\ hin.kind = "rows" /\ hout.fn = "none"
    /\ hout' = [fn |-> "generate_row_fingerprint",
                fingerprint1 |-> generate_row_fingerprint(hin.row1),
                fingerprint2 |-> generate_row_fingerprint(hin.row2)]
    /\ UNCHANGED <<progress, store, resp, uploaded, hin, calls>>

MatchRows ==
    /\ hin.kind = "rows" /\ hout.fn = "none"
    /\ hout' = [fn |-> "rows_match", result |-> rows_match(hin.row1, hin.row2)]
    /\ UNCHANGED <<progress, store, resp, uploaded, hin, calls>>

Classify ==
    /\ hin.kind = "headers" /\ hout.fn = "none"
    /\ hout' = [fn |-> "CSVRowValidator", validator |-> CSVRowValidator(hin.headers)]
    /\ UNCHANGED <<progress, store, resp, uploaded, hin, calls>>

Validate ==
    /\ hin.kind = "row" /\ hout.fn = "none"
    /\ LET validator == CSVRowValidator(hin.headers)
       IN  hout' = [fn |-> "is_row_valid",
                    valid |-> V_is_row_valid(validator, hin.row),
                    date |-> V_extract_transaction_date(validator, hin.row),
                    amount |-> V_extract_amount(validator, hin.row),
                    described |-> V_has_description(validator, hin.row)]
    /\ UNCHANGED <<progress, store, resp, uploaded, hin, calls>>

ExtractAmount ==
    /\ hin.kind = "cell" /\ hout.fn = "none"
    /\ hout' = [fn |-> "extract_amount",
                amount |-> extract_amount(<<<<hin.key, hin.value>>>>)]
    /\ UNCHANGED <<progress, store, resp, uploaded, hin, calls>>

\* CSVRowValidator(headers).extract_amount(row)
ExtractRowAmount ==
    /\ hin.kind = "amount_row" /\ hout.fn = "none"
    /\ hout' = [fn |-> "CSVRowValidator.extract_amount",
                amount |-> V_extract_amount(CSVRowValidator(hin.headers), hin.row)]
    /\ UNCHANGED <<progress, store, resp, uploaded, hin, calls>>

\* CSVRowValidator(row.keys()).extract_transaction_date(row)
ExtractRowDate ==
    /\ hin.kind = "date_row" /\ hout.fn = "none"
    /\ hout' = [fn |-> "CSVRowValidator.extract_transaction_date",
                date |-> V_extract_transaction_date(CSVRowValidator(Keys(hin.row)),
                                                    hin.row)]
    /\ UNCHANGED <<progress, store, resp, uploaded, hin, calls>>

\* find_matching_category(row_data) on the stored mappings
FindCategory ==
    /\ hin.kind = "find" /\ hout.fn = "none"
    /\ hout' = [fn |-> "find_matching_category",
                category |-> find_matching_category(store, hin.row)]
    /\ UNCHANGED <<progress, store, resp, uploaded, hin, calls>>

\* CSVRowValidator(fieldnames).extract_transaction_date(row) on a row of the reader
ParsedRowDate ==
    /\ hin.kind = "parsed_row" /\ hout.fn = "none"
    /\ hout' = [fn |-> "parsed_row.extract_transaction_date",
                outcome |-> Outcome(DateRaises(CSVRowValidator(hin.headers), hin.row),
                                    V_extract_transaction_date(
                                        CSVRowValidator(hin.headers), hin.row))]
    /\ UNCHANGED <<progress, store, resp, uploaded, hin, calls>>

\* CSVRowValidator(fieldnames).extract_amount(row) on a row of the reader
ParsedRowAmount ==
    /\ hin.kind = "parsed_row" /\ hout.fn = "none"
    /\ hout' = [fn |-> "parsed_row.extract_amount",
                outcome |-> Outcome(AmountRaises(CSVRowValidator(hin.headers), hin.row),
                                    V_extract_amount(CSVRowValidator(hin.headers), hin.row))]
    /\ UNCHANGED <<progress, store, resp, uploaded, hin, calls>>

\* CSVRowValidator(fieldnames).has_description(row) on a row of the reader
ParsedRowDescription ==
    /\ hin.kind = "parsed_row" /\ hout.fn = "none"
    /\ hout' = [fn |-> "parsed_row.has_description",
                outcome |-> Outcome(DescriptionRaises(CSVRowValidator(hin.headers), hin.row),
                                    V_has_description(CSVRowValidator(hin.headers), hin.row))]
    /\ UNCHANGED <<progress, store, resp, uploaded, hin, calls>>

\* CSVRowValidator(fieldnames).is_row_valid(row) on a row of the reader
ParsedRowValid ==
    /\ hin.kind = "parsed_row" /\ hout.fn = "none"
    /\ hout' = [fn |-> "parsed_row.is_row_valid",
                outcome |-> Outcome(ValidRaises(CSVRowValidator(hin.headers), hin.row,
                                        V_extract_transaction_date(
                                            CSVRowValidator(hin.headers), hin.row),
                                        V_extract_amount(
                                            CSVRowValidator(hin.headers), hin.row)),
                                    V_is_row_valid(CSVRowValidator(hin.headers), hin.row))]
    /\ UNCHANGED <<progress, store, resp, uploaded, hin, calls>>

\* CSVRowValidator(headers).extract_amount(row) on a row with columns the header lacks
ExtractFallbackAmount ==
    /\ hin.kind = "fallback_row" /\ hout.fn = "none"
    /\ hout' = [fn |-> "fallback_row.extract_amount",
                amount |-> V_extract_amount(CSVRowValidator(hin.headers), hin.row)]
    /\ UNCHANGED <<progress, store, resp, uploaded, hin, calls>>

\* merge_mappings_for_file(filename, new_rows, existing_rows) on any two lists
MergeTwoLists ==
    /\ hin.kind = "merge_lists" /\ hout.fn = "none"
    /\ store' = merge_mappings_for_file(store, MergeFile, hin.new_rows, hin.existing_rows)
    /\ hout' = [fn |-> "merge_mappings_for_file"]
    /\ UNCHANGED <<progress, resp, uploaded, hin, calls>>

\* rows_match on the pairs of three rows
MatchTriple ==
    /\ hin.kind = "row_triple" /\ hout.fn = "none"
    /\ hout' = [fn |-> "rows_match triple",
                match11 |-> TripleMatch(hin.row1, hin.row1),
                match12 |-> TripleMatch(hin.row1, hin.row2),
                match21 |-> TripleMatch(hin.row2, hin.row1),
                match23 |-> TripleMatch(hin.row2, hin.row3),
                match13 |-> TripleMatch(hin.row1, hin.row3)]
    /\ UNCHANGED <<progress, store, resp, uploaded, hin, calls>>

FunctionNext ==
    \/ Merge
    \/ FingerprintRows
    \/ MatchRows
    \/ Classify
    \/ Validate
    \/ ExtractAmount
    \/ ExtractRowAmount
    \/ ExtractRowDate
    \/ FindCategory
    \/ ParsedRowDate
    \/ ParsedRowAmount
    \/ ParsedRowDescription
    \/ ParsedRowValid
    \/ ExtractFallbackAmount
    \/ MergeTwoLists
    \/ MatchTriple

SpecFunctions == FunctionInit /\ [][FunctionNext]_vars

-----------------------------------------------------------------------------
(* The merge *)

\* what merge_mappings_for_file left under the file
Stored == load_mappings_for_file(store, MergeFile)

\* C3: merge_mappings_for_file(f, R, R) stores under f a list equal to R.
C3_MergeIdempotent ==
    (hout.fn = "merge" /\ hout.new_rows = hin.existing_rows)
        => Stored = hin.existing_rows

\* two rows of the same fingerprint, the first one mapped, merged with themselves
C3_Witness ==
    /\ hout.fn = "merge"
    /\ hout.new_rows = hin.existing_rows
    /\ Len(hin.existing_rows) = 2
    /\ hin.existing_rows[1].original_data = RowA
    /\ hin.existing_rows[1].category = "Groceries"
    /\ hin.existing_rows[2].original_data = RowAAgain
    /\ Stored = hin.existing_rows

\* rows[i] is at some position after the first n positions of stored
HeldAfter(stored, n, row) == \E k \in (n + 1)..Len(stored) : stored[k] = row

IsIn(rows, row) == \E j \in 1..Len(rows) : rows[j] = row

FirstOfItsFingerprint(rows, i, new_rows) ==
    /\ \A j \in 1..Len(new_rows) :
           Fingerprint(new_rows[j].original_data) # Fingerprint(rows[i].original_data)
    /\ \A j \in 1..(i - 1) :
           Fingerprint(rows[j].original_data) # Fingerprint(rows[i].original_data)

-----------------------------------------------------------------------------
(* The fingerprint and the match *)

\* row2 holds the (header, value) pairs of row1 in some order
IsReordering(row1, row2) ==
    /\ Len(row1) = Len(row2)
    /\ {row1[i] : i \in 1..Len(row1)} = {row2[i] : i \in 1..Len(row2)}

OneColumnPerRole(row) ==
    /\ Cardinality({k \in 1..Len(row) : HasDateToken(row[k][1])}) <= 1
    /\ Cardinality({k \in 1..Len(row) : HasAmountToken(row[k][1])}) = 1
    /\ Cardinality({k \in 1..Len(row) :
                       /\ ~HasDateToken(row[k][1])
                       /\ ~HasAmountToken(row[k][1])
                       /\ Strip(row[k][2]) # ""}) <= 1

SameDateAndAmount(row1, row2) ==
    /\ Keys(row1) = Headers
    /\ Keys(row2) = Headers
    /\ extract_transaction_date(row1) = extract_transaction_date(row2)
    /\ extract_amount(row1) = extract_amount(row2)

\* C6 as stated: two rows with equal extracted date and amount and different
\* description values have different fingerprints.
C6_DescriptionsTellApart ==
    (/\ hout.fn = "generate_row_fingerprint"
     /\ SameDateAndAmount(hin.row1, hin.row2)
     /\ Get(hin.row1, "Description") # Get(hin.row2, "Description"))
        => hout.fingerprint1 # hout.fingerprint2

\* C6, amended: two rows with equal extracted date and amount whose descriptions
\* differ after lowercasing and trimming have different fingerprints.
C6_NormalDescriptionsTellApart ==
    (/\ hout.fn = "generate_row_fingerprint"
     /\ SameDateAndAmount(hin.row1, hin.row2)
     /\ Strip(Lower(Get(hin.row1, "Description")))
            # Strip(Lower(Get(hin.row2, "Description"))))
        => hout.fingerprint1 # hout.fingerprint2

\* the same date and amount written in two ways, with two descriptions
C6_Witness ==
    /\ hout.fn = "generate_row_fingerprint"
    /\ hin.row1 = CsvRow("2024-01-01", "Grocery Store", "50.00")
    /\ hin.row2 = CsvRow("01/01/2024", "Gas Station", "$50.00")
    /\ hout.fingerprint1 # hout.fingerprint2

\* no date, no amount and no description can be extracted from the row
Degenerate(row) ==
    /\ ~extract_transaction_date(row).ok
    /\ ~extract_amount(row).ok
    /\ FingerprintDescription(row) = ""

\* the key sets or the normalized values of the rows differ
DifferInContent(row1, row2) ==
    \/ KeySet(row1) # KeySet(row2)
    \/ \E key \in KeySet(row1) :
          Strip(Lower(Get(row1, key))) # Strip(Lower(Get(row2, key)))

\* C7: rows_match is false for two rows from which no date, no amount and no
\* description can be extracted and whose key sets or normalized values differ.
C7_DegenerateRowsDoNotMatch ==
    (/\ hout.fn = "rows_match"
     /\ Degenerate(hin.row1)
     /\ Degenerate(hin.row2)
     /\ DifferInContent(hin.row1, hin.row2))
        => ~hout.result

-----------------------------------------------------------------------------
(* The validator *)

Holds(list, i) == \E k \in 1..Len(list) : list[k] = i

\* the number of the three index lists that hold column i
ListsHolding(validator, i) ==
    (IF Holds(validator.date_columns, i) THEN 1 ELSE 0)
    + (IF Holds(validator.amount_columns, i) THEN 1 ELSE 0)
    + (IF Holds(validator.description_columns, i) THEN 1 ELSE 0)

\* C8: every column is in exactly one of date_columns, amount_columns and
\* description_columns; a header with "date" is in date_columns only, a header
\* with neither keyword is in description_columns.
C8_ColumnsArePartitioned ==
    hout.fn = "CSVRowValidator"
        => \A i \in 1..Len(hin.headers) :
               /\ ListsHolding(hout.validator, i) = 1
               /\ HasDateToken(hin.headers[i]) => Holds(hout.validator.date_columns, i)
               /\ (~HasDateToken(hin.headers[i]) /\ ~HasAmountToken(hin.headers[i]))
                      => Holds(hout.validator.description_columns, i)

\* every cell of the row under a key of the kind is empty
AllEmpty(row, cells) == \A k \in cells : row[k][2] = ""

DateCellsOf(row) == {k \in 1..Len(row) : HasDateToken(row[k][1])}

AmountCellsOf(row) == {k \in 1..Len(row) : HasAmountToken(row[k][1])}

DescriptionCellsOf(row) ==
    {k \in 1..Len(row) : ~HasDateToken(row[k][1]) /\ ~HasAmountToken(row[k][1])}

C10_ColumnDecidesSign ==
    (hout.fn = "extract_amount" /\ hout.amount.ok)
        => /\ (Contains(Lower(hin.key), "credit") /\ ~Contains(Lower(hin.key), "debit"))
                  => Value(hout.amount) <= 0
           /\ Contains(Lower(hin.key), "debit") => Value(hout.amount) >= 0

\* a parenthesised cell of a debit column comes out positive
C10_Witness ==
    /\ hout.fn = "extract_amount"
    /\ hin.key = "Debit"
    /\ hin.value = "(30.00)"
    /\ hout.amount = [ok |-> TRUE, neg |-> FALSE, cents |-> 3000]

-----------------------------------------------------------------------------
(* Extraction order *)

\* the cell of column i when the column is an amount column and the cell is neither
\* absent nor empty, parsed under the column name
AmountCellAt(headers, row, i, cell) ==
    IF HasAmountToken(headers[i]) /\ cell \notin {None, ""}
    THEN parse_amount_value(Strip(cell), headers[i])
    ELSE NoAmount

ParsedAmountCells(headers, row) ==
    [i \in 1..Len(headers) |-> AmountCellAt(headers, row, i, Get(row, headers[i]))]

\* the first of the cells, in header order, that parsed
FirstParsed(cells, hits) ==
    IF hits = {} THEN NoAmount
    ELSE cells[CHOOSE i \in hits : \A j \in hits : i <= j]

FirstParsedAmount(cells) == FirstParsed(cells, {i \in 1..Len(cells) : cells[i].ok})

\* C11: extract_amount returns the value of the first amount column, in header
\* order, whose cell is non-empty and parses; with a Debit and a Credit column, a
\* row with Debit = x and no credit gives +|x|, one with Credit = x and no debit
\* gives -|x|.
C11_FirstAmountColumnWins ==
    hout.fn = "CSVRowValidator.extract_amount"
        => /\ hout.amount = FirstParsedAmount(ParsedAmountCells(hin.headers, hin.row))
           /\ (/\ Get(hin.row, "Debit") \in {"100.00", "-100.00", "(100.00)"}
               /\ Get(hin.row, "Credit") \in {None, ""})
                  => hout.amount = [ok |-> TRUE, neg |-> FALSE, cents |-> 10000]
           /\ (/\ Get(hin.row, "Debit") \in {None, ""}
               /\ Get(hin.row, "Credit") \in {"100.00", "-100.00", "(100.00)"})
                  => hout.amount = [ok |-> TRUE, neg |-> TRUE, cents |-> 10000]

\* the debit cell is empty and the credit cell gives the amount, negated
C11_Witness ==
    /\ hout.fn = "CSVRowValidator.extract_amount"
    /\ Get(hin.row, "Debit") = ""
    /\ Get(hin.row, "Credit") = "100.00"
    /\ hout.amount = [ok |-> TRUE, neg |-> TRUE, cents |-> 10000]

Date(y, m, d) == [ok |-> TRUE, y |-> y, m |-> m, d |-> d]

\* what each cell text of the two-column rows denotes
DateOfText(cell) ==
    CASE cell = "2024-01-01" -> Date(2024, 1, 1)
      [] cell = "01/05/2024" -> Date(2024, 1, 5)
      [] cell = "13/02/2024" -> Date(2024, 2, 13)
      [] OTHER -> NoDate

\* C12: extract_transaction_date returns the first successful parse, date columns
\* in header order and formats in the fixed order: a/b/YYYY with a <= 12 and
\* b <= 12 is month a, day b; with a > 12 (a day of month b) and b <= 12 it is
\* day a, month b; of two date columns the earlier one that parses gives the date.
C12_FirstParseWins ==
    hout.fn = "CSVRowValidator.extract_transaction_date"
        => /\ \A a \in 1..12, b \in 1..12 :
                  hin.row = <<<<"Date", SlashDate(a, b)>>>> => hout.date = Date(2024, a, b)
           /\ \A a \in 13..31, b \in 1..12 :
                  (hin.row = <<<<"Date", SlashDate(a, b)>>>> /\ a <= DaysInMonth(2024, b))
                      => hout.date = Date(2024, b, a)
           /\ Len(hin.row) = 2
                  => hout.date = IF DateOfText(hin.row[1][2]).ok
                                 THEN DateOfText(hin.row[1][2])
                                 ELSE DateOfText(hin.row[2][2])

\* 05/12/2024 is read as the twelfth of May
C12_Witness ==
    /\ hout.fn = "CSVRowValidator.extract_transaction_date"
    /\ hin.row = <<<<"Date", "05/12/2024">>>>
    /\ hout.date = [ok |-> TRUE, y |-> 2024, m |-> 5, d |-> 12]

\* C13: for an amount text sign? symbol? digits (',' digits)* ('.' digits)?, bare
\* or in parentheses, extract_amount on a column named "Amount" returns the number
\* the digits denote, negated exactly when the text has a leading minus or is in
\* parentheses; a cell with no digit gives none.
C13_AmountTextsParse ==
    (hout.fn = "extract_amount" /\ hin.key = "Amount")
        => /\ \A sign \in {"", "-"}, symbol \in {"", "$", "£", "€"}, body \in AmountBodies,
                 wrapped \in BOOLEAN :
                  hin.value = AmountText(sign, symbol, body.text, wrapped)
                      => /\ hout.amount.ok
                         /\ Value(hout.amount)
                                = IF sign = "-" \/ wrapped THEN 0 - body.cents
                                  ELSE body.cents
           /\ hin.value \in NoDigitTexts => ~hout.amount.ok

\* ($1,234.56) is -1234.56
C13_Witness ==
    /\ hout.fn = "extract_amount"
    /\ hin.key = "Amount"
    /\ hin.value = "($1,234.56)"
    /\ hout.amount = [ok |-> TRUE, neg |-> TRUE, cents |-> 123456]

-----------------------------------------------------------------------------
(* Category of an earlier mapping *)

\* the mapping is mapped, has a non-empty category and matches the row
Answers(mapping, row) ==
    /\ mapping.mapped
    /\ mapping.category \notin {None, ""}
    /\ RowsMatch(row, mapping.original_data)

\* the category of the first mapping of the list that answers, none when none does
RECURSIVE ScanRows(_, _)
ScanRows(rows, row) ==
    IF rows = <<>> THEN None
    ELSE IF Answers(Head(rows), row) THEN Head(rows).category
    ELSE ScanRows(Tail(rows), row)

\* the files in store order: the answer of the first file that has one
ScanFile(first, rest) == IF first # None THEN first ELSE rest

RECURSIVE ScanFiles(_, _)
ScanFiles(st, row) ==
    IF st = <<>> THEN None
    ELSE ScanFile(ScanRows(Head(st)[2], row), ScanFiles(Tail(st), row))

\* C19: find_matching_category(row) returns the category of the first stored
\* mapping, files in store order and rows in list order, that is mapped, has a
\* non-empty category and matches the row; it returns none when there is none.
C19_FirstStoredMatch ==
    hout.fn = "find_matching_category" => hout.category = ScanFiles(store, hin.row)

\* the first file holds the row unmapped and then mapped to Income, the second
\* file holds it mapped to Groceries: the answer is Income
C19_Witness ==
    /\ hout.fn = "find_matching_category"
    /\ hin.row = RowA
    /\ Len(store[1][2]) = 2
    /\ store[1][2][1].original_data = RowA /\ ~store[1][2][1].mapped
    /\ store[1][2][2].original_data = RowA /\ store[1][2][2].category = "Income"
    /\ Len(store[2][2]) = 1
    /\ store[2][2][1].original_data = RowA /\ store[2][2][1].category = "Groceries"
    /\ hout.category = "Income"

-----------------------------------------------------------------------------
(* Concurrent map requests *)

\* the row the call of thread t mapped, in a list of rows
AckedRow(rows, t) == rows[ListIndex(Len(rows), calls[t].row_index)]

\* rows hold the mapping that the call of thread t acknowledged
HoldsAcked(rows, t) ==
    /\ AckedRow(rows, t).mapped
    /\ AckedRow(rows, t).category = calls[t].category

\* the call of thread t was answered with success
Acknowledged(t) == calls[t].pc = "done" /\ calls[t].status = 200

\* no other call addressed the row of the call of thread t
OnlyCallOnRow(t) ==
    \A u \in Threads \ {t} :
        \/ calls[u].pc = "idle"
        \/ calls[u].status \notin {0, 200}
        \/ ListIndex(Len(progress), calls[u].row_index)
               # ListIndex(Len(progress), calls[t].row_index)

\* C21: the two files are overwritten whole, last writer wins: a map request that ran
\* while no other map request was running, once acknowledged, is held by the progress
\* list and by the mapping store unless another request mapped the same row; requests
\* that interleave their loads and saves can lose an acknowledged mapping (C21_Witness).
C21_SequentialKeepsUpdates ==
    \A t \in Threads :
        (Acknowledged(t) /\ ~calls[t].overlapped /\ OnlyCallOnRow(t))
            => /\ HoldsAcked(progress, t)
               /\ HoldsAcked(load_mappings_for_file(store, "a.csv"), t)

\* a lost update: two acknowledged maps of different rows, and the mapping of one of
\* them is neither in the progress list nor in the mapping store
C21_Witness ==
    \E t \in Threads :
        /\ \A u \in Threads : Acknowledged(u)
        /\ OnlyCallOnRow(t)
        /\ ~AckedRow(progress, t).mapped
        /\ ~AckedRow(load_mappings_for_file(store, "a.csv"), t).mapped

-----------------------------------------------------------------------------
(* Rows of the CSV reader *)

\* C22: on every row of dict-style CSV parsing, rows with missing cells and rows with
\* surplus cells included, extract_transaction_date, extract_amount, has_description
\* and is_row_valid return a value and never raise.
C22_ExtractionNeverRaises ==
    hin.kind = "parsed_row" /\ hout.fn # "none" => ~hout.outcome.raised

-----------------------------------------------------------------------------
(* Fallback of extract_amount *)

\* the cell of a row key, parsed under the key when take holds and the cell is
\* neither absent nor empty
KeyCellAt(key, cell, take) ==
    IF take /\ cell \notin {None, ""} THEN parse_amount_value(Strip(cell), key)
    ELSE NoAmount

\* the cells of the row keys that have an amount keyword
KeywordCells(row) ==
    [i \in 1..Len(row) |-> KeyCellAt(row[i][1], row[i][2], HasAmountToken(row[i][1]))]

\* the cells of all row keys
AllCells(row) == [i \in 1..Len(row) |-> KeyCellAt(row[i][1], row[i][2], TRUE)]

\* C23: when no classified amount column yields a value, the row keys with an amount
\* keyword are tried, and when none of these yields a value every row key is tried;
\* the first value that parses is returned.
C23_FallbackChain ==
    hout.fn = "fallback_row.extract_amount"
        => hout.amount =
               OrElse(FirstParsedAmount(ParsedAmountCells(hin.headers, hin.row)),
                      OrElse(FirstParsedAmount(KeywordCells(hin.row)),
                             FirstParsedAmount(AllCells(hin.row))))

-----------------------------------------------------------------------------
(* Shape of the merged list *)

\* the data of the rows of a list
DataOf(rows) == {rows[i].original_data : i \in 1..Len(rows)}

\* C24: on merge an existing row from which no date, amount or description can be
\* extracted, and which is not among the new rows, is dropped: the list stored by
\* merge_mappings_for_file does not contain it.
C24_DegenerateRowsDropped ==
    hout.fn = "merge_mappings_for_file"
        => \A i \in 1..Len(hin.existing_rows) :
               (/\ Degenerate(hin.existing_rows[i].original_data)
                /\ hin.existing_rows[i].original_data \notin DataOf(hin.new_rows))
                   => hin.existing_rows[i].original_data \notin DataOf(Stored)

\* the positions of the existing rows whose fingerprint no new row has and no earlier
\* existing row has
KeptPositions(new_rows, existing_rows) ==
    {i \in 1..Len(existing_rows) :
        /\ \A j \in 1..Len(new_rows) :
               Fingerprint(new_rows[j].original_data)
                   # Fingerprint(existing_rows[i].original_data)
        /\ \A j \in 1..(i - 1) :
               Fingerprint(existing_rows[j].original_data)
                   # Fingerprint(existing_rows[i].original_data)}

\* C25: with existing rows, merge_mappings_for_file stores all new rows in their order,
\* duplicates kept, then the existing rows, in their order, whose fingerprint occurs
\* among no new row, the first row of each such fingerprint only; with no existing
\* rows it stores exactly the new rows.
C25_MergedListShape ==
    hout.fn = "merge_mappings_for_file"
        => Stored =
               IF hin.existing_rows = <<>> THEN hin.new_rows
               ELSE hin.new_rows
                    \o SubList(hin.existing_rows,
                               KeptPositions(hin.new_rows, hin.existing_rows), 1)

\* two new rows of one fingerprint, two existing rows of another: three rows stored
C25_Witness ==
    /\ hout.fn = "merge_mappings_for_file"
    /\ Len(hin.new_rows) = 2
    /\ hin.new_rows[1].original_data = RowB
    /\ hin.new_rows[2].original_data = RowB
    /\ Len(hin.existing_rows) = 2
    /\ hin.existing_rows[1].original_data = RowA
    /\ hin.existing_rows[2].original_data = RowAAgain
    /\ Len(Stored) = 3
    /\ Stored[3] = hin.existing_rows[1]

-----------------------------------------------------------------------------
(* rows_match as a relation *)

\* C30: rows_match is an equivalence relation on rows: reflexive, symmetric and
\* transitive, also when one pair matches by fingerprint and the other pair by the
\* key-set and normalized-value fallback only.
C30_RowsMatchEquivalence ==
    hout.fn = "rows_match triple"
        => /\ hout.match11
           /\ hout.match12 = hout.match21
           /\ (hout.match12 /\ hout.match23) => hout.match13

====
